---- MODULE Spec2Model ----
(***************************************************************************)
(* A model of the crank reconciler (src/src/index.ts): the retained tree   *)
(* of Leaf/Fragment/Host/Component nodes, the child-list diff              *)
(* (ParentNode.updateChildren), commit, unmount, the error chain (catch),  *)
(* the component scheduler (run/step/advance) and Renderer.render.         *)
(*                                                                         *)
(* The program is single threaded.  A handler runs to completion; what it  *)
(* leaves behind are promise reactions.  The model keeps a heap of nodes,  *)
(* a heap of promises and the queue of promise jobs (microtasks).  Each    *)
(* method of the source is an operator from heap to heap, named as in the  *)
(* source; an exception in flight is the field `thrown` of the heap.       *)
(***************************************************************************)
EXTENDS Integers, Sequences, FiniteSets, TLC

\* ------------------------------------------------------------------ bounds
MaxRenders == 3
MaxRefreshes == 2
MaxCalls == 4
MaxTries == 2
MaxOverlap == 3
MaxLen == 2
NumKeys == 2

Keys == 1..NumKeys

\* ------------------------------------------------------------------ values
\* A committed value is a sequence of atoms: <<>> is undefined, one atom is
\* a single value, more than one atom is an array.  An atom is a string
\* (s = TRUE, x its characters) or a backend value (s = FALSE, x = <<id>>).
Str(x) == [s |-> TRUE, x |-> x]
El(id) == [s |-> FALSE, x |-> <<id>>]

\* ------------------------------------------------------------------ tags
Fragment == "Fragment"
Copy == "Copy"
Portal == "Portal"

\* Children: what props.children or a component's output holds.  iter = TRUE
\* is a non-string iterable of items; iter = FALSE is a single child (one
\* item) or null/undefined (no item).
NoChildren == [iter |-> FALSE, items |-> <<>>]
One(c) == [iter |-> FALSE, items |-> <<c>>]
Many(cs) == [iter |-> TRUE, items |-> cs]

\* Child descriptors.  t = "el": an element with props p and children ch;
\* "str": the string x; "nul": null or undefined; "num": the
\* number p; "arr": a nested iterable of the children ch.  ref is the
\* crank-ref of an element (0: it has none, 1: a function).
Elem(tag, key, p, ch) ==
  [t |-> "el", tag |-> tag, key |-> key, p |-> p, x |-> <<>>, ch |-> ch, ref |-> 0]
Text(x) ==
  [t |-> "str", tag |-> "", key |-> 0, p |-> 0, x |-> x, ch |-> NoChildren, ref |-> 0]
Null ==
  [t |-> "nul", tag |-> "", key |-> 0, p |-> 0, x |-> <<>>, ch |-> NoChildren, ref |-> 0]
Num(p) ==
  [t |-> "num", tag |-> "", key |-> 0, p |-> p, x |-> <<>>, ch |-> NoChildren, ref |-> 0]
Arr(cs) ==
  [t |-> "arr", tag |-> "", key |-> 0, p |-> 0, x |-> <<>>, ch |-> Many(cs), ref |-> 0]
\* createElement with a function as the crank-ref of its props.
Ref(el) == [el EXCEPT !.ref = 1]

\* ------------------------------------------------------ user code (tags)
\* A component tag stands for a user callable.  Behav gives what the callable
\* does: type is what it returns ("fn" a child, "afn" a promise of a child,
\* "gen" a sync iterator, "agen" an async iterator); out is the tag of the
\* element it renders ("" renders its props as a string, "children" renders
\* the children of its props); doneAt is the
\* number of the iterator.next call that reports done (0 never); throwAt is
\* the number of the call of the body that raises an error (0 never);
\* onThrow is what iterator.throw does ("none": the iterator has no throw,
\* "rethrow": it raises the error again, "yield": it yields its fallback,
\* "done": it returns); doneOut: the done iteration carries the output;
\* asyncReturn: iterator.return yields a promise; reent: what the body does
\* re-entrantly when it runs with props other than 0 ("render": it renders
\* the root again with props 0, "refresh": it calls this.refresh(), "":
\* nothing; an async function does it before its first await); asks: how the body of a generator asks for its props at every
\* iteration when it does not follow the protocol of its kind ("sync": an
\* async generator iterates this with for...of, "async": a sync generator
\* calls next() on this[Symbol.asyncIterator](), "": neither); hooks: the
\* body, when it runs with props other than 0, registers a new callback with
\* this.schedule and with this.cleanup; sets: the name for which the body
\* sets its props as the value with this.set when they are not 0, before it
\* reads every name with this.get (0: the body does neither).
\* asyncFrom is the number of the call from which on a callable that
\* returned children returns a promise of them (type "fn"), or an iterator
\* object whose next returned iterations returns promises of them (type
\* "gen"); 0: never.
\* An error raised in an async function or async generator body rejects the
\* promise of the call.
B0 == [type |-> "fn", out |-> "", doneAt |-> 0, doneOut |-> FALSE, throwAt |-> 0,
       onThrow |-> "rethrow", asyncReturn |-> FALSE, reent |-> "", asks |-> "",
       hooks |-> FALSE, sets |-> 0, asyncFrom |-> 0]
Behav(tag) ==
  CASE tag = "Fn" -> B0
    [] tag = "AFn" -> [B0 EXCEPT !.type = "afn"]
    [] tag = "Gen" -> [B0 EXCEPT !.type = "gen"]
    [] tag = "AGen" -> [B0 EXCEPT !.type = "agen", !.asyncReturn = TRUE]
    [] tag = "FnA" -> [B0 EXCEPT !.out = "AFn"]
    [] tag = "AFnF" -> [B0 EXCEPT !.type = "afn", !.out = "Fn"]
    [] tag = "AGenA" -> [B0 EXCEPT !.type = "agen", !.asyncReturn = TRUE, !.out = "AFn"]
    [] tag = "GenA" -> [B0 EXCEPT !.type = "gen", !.out = "AFn"]
    [] tag = "GenD" -> [B0 EXCEPT !.type = "gen", !.doneAt = 2]
    [] tag = "AGenD" -> [B0 EXCEPT !.type = "agen", !.doneAt = 2, !.asyncReturn = TRUE]
    [] tag = "GenRet" -> [B0 EXCEPT !.type = "gen", !.doneAt = 1, !.doneOut = TRUE,
                                   !.out = "Gen"]
    [] tag = "AGenB" -> [B0 EXCEPT !.type = "agen", !.asyncReturn = TRUE, !.out = "b"]
    [] tag = "FnW" -> [B0 EXCEPT !.out = "children"]
    [] tag = "GenW" -> [B0 EXCEPT !.type = "gen", !.out = "children", !.onThrow = "yield"]
    [] tag = "GenN" -> [B0 EXCEPT !.type = "gen", !.out = "children", !.onThrow = "none"]
    [] tag = "GenR" -> [B0 EXCEPT !.type = "gen", !.out = "children"]
    [] tag = "GenF" -> [B0 EXCEPT !.type = "gen", !.out = "children", !.doneAt = 1,
                                 !.doneOut = TRUE, !.onThrow = "yield"]
    [] tag = "GenE" -> [B0 EXCEPT !.type = "gen", !.out = "children", !.onThrow = "done"]
    [] tag = "FnP" -> [B0 EXCEPT !.asyncFrom = 2]
    [] tag = "ItP" -> [B0 EXCEPT !.type = "gen", !.asyncFrom = 2, !.doneAt = 3]
    [] tag = "AFnW" -> [B0 EXCEPT !.type = "afn", !.out = "children"]
    [] tag = "AGenW" -> [B0 EXCEPT !.type = "agen", !.out = "children",
                                  !.onThrow = "yield", !.asyncReturn = TRUE]
    [] tag = "AGenN" -> [B0 EXCEPT !.type = "agen", !.out = "children",
                                  !.onThrow = "none", !.asyncReturn = TRUE]
    [] tag = "FnT" -> [B0 EXCEPT !.throwAt = 1]
    [] tag = "FnU" -> [B0 EXCEPT !.throwAt = 2]
    [] tag = "GenX" -> [B0 EXCEPT !.type = "gen", !.throwAt = 2]
    [] tag = "GenT" -> [B0 EXCEPT !.type = "gen", !.out = "AFnT"]
    [] tag = "AFnT" -> [B0 EXCEPT !.type = "afn", !.throwAt = 1]
    [] tag = "FnR" -> [B0 EXCEPT !.reent = "render"]
    [] tag = "FnS" -> [B0 EXCEPT !.reent = "refresh"]
    [] tag = "AFnR" -> [B0 EXCEPT !.type = "afn", !.reent = "render"]
    [] tag = "AGenS" -> [B0 EXCEPT !.type = "agen", !.asyncReturn = TRUE, !.asks = "sync"]
    [] tag = "GenAw" -> [B0 EXCEPT !.type = "gen", !.asks = "async"]
    [] tag = "FnH" -> [B0 EXCEPT !.hooks = TRUE]
    [] tag = "AFnH" -> [B0 EXCEPT !.type = "afn", !.hooks = TRUE]
    [] tag = "FnK1" -> [B0 EXCEPT !.out = "children", !.sets = 1]
    [] tag = "FnK2" -> [B0 EXCEPT !.out = "children", !.sets = 2]
    [] tag = "AFnK1" -> [B0 EXCEPT !.type = "afn", !.out = "children", !.sets = 1]
    [] tag = "AFnK2" -> [B0 EXCEPT !.type = "afn", !.out = "children", !.sets = 2]
    [] OTHER -> B0
CompTags == {"Fn", "AFn", "Gen", "AGen", "FnA", "GenA", "GenD", "AGenD", "GenRet",
             "AGenB", "GenT", "AFnT", "FnR", "FnS", "FnW", "GenW", "GenN", "GenR",
             "GenF", "AFnW", "AGenW", "AGenN", "FnT", "FnU", "AGenS", "GenAw",
             "FnH", "AFnH", "FnK1", "FnK2", "AFnK1", "AFnK2", "AFnR", "GenE",
             "FnP", "ItP", "AGenA", "AFnF", "GenX"}
IsComp(tag) == tag \in CompTags

\* What a component renders for its props.
Output(tag, props) ==
  IF Behav(tag).out = "" THEN One(Text(<<props.p>>))
  ELSE IF Behav(tag).out = "children" THEN props.children
  ELSE One(Elem(Behav(tag).out, 0, props.p, NoChildren))

\* ------------------------------------------------------------------- heap
NoProps == [p |-> 0, children |-> NoChildren]
Val0 == [child |-> NoChildren, done |-> FALSE, err |-> ""]

\* class LeafNode / ParentNode / FragmentNode / HostNode / ComponentNode: one
\* record shape for all, kind tells them apart.  0 stands for undefined in
\* every link and promise field.  The fields calls, nexts, returns and throws
\* count the entries into user code (the callable, iterator.next, .return,
\* .throw); commits lists the values a component and the child values a
\* host committed; reentered tells that user code was entered while the node
\* was stepping; replaced is the node this node replaced while its first
\* update was pending, and first the promise of that update; runs counts the
\* calls of run and returned is what the last one returned; driving is the
\* pending promise the last step returned, and racing tells that a step was
\* entered while the driving promise of the step before was unsettled;
\* updates counts the calls of the component's updateChildren.  dirtyChildren
\* is the field of HostNode: the dirty flag as commitChildren left it at the
\* node's last commit.  asked counts the requests for props a generator made
\* against the protocol of its kind, and refused the errors raised at them.
\* schedules and cleanups are the sets of callbacks of ComponentNode, in the
\* order of insertion; a callback is named by the number of the call that
\* registered it.  regs lists the callbacks registered, each with the number
\* of commits of the node at that time; fired lists the calls of schedule
\* callbacks, each with the number of the commit and the value passed; cleaned
\* lists the calls of cleanup callbacks.  provisions is the Map of
\* ComponentNode over the names 1 and 2 (-1: the map has no entry for the
\* name); got is what this.get returned for the two names when the body
\* read them last.  ref is the ref of the node (0: undefined); carried lists
\* the values stored by the commits of the node that completed while it had
\* a ref, and refd the values with which the ref was called.  aggregate is
\* the result of the children of the last updateChildren call (0: it had
\* none); superseded holds the aggregates that were pending when a later
\* call began, and lost those of them whose chained commit was executed.
\* gathering holds the promises that the child updates of the call in
\* progress returned; waited pairs every aggregate with the promises that
\* the child updates of its call returned; done holds the aggregates whose
\* chained commit was entered, and early the pairs of waited whose promise
\* was pending when that happened.  entries counts the calls of commit on
\* the node and dirtied is its dirty flag as commitChildren left it last;
\* ups holds, for the commits of the node, the flags updating and dirty it
\* had at the test after the commit, whether a commit of its parent was
\* entered from there (grew), and what that left in the parent's dirtied.
\* handed counts the calls of update and refresh on a component, and hands
\* holds for each what it did: resolved a props request, left the available
\* flag set; took lists, for every iteration of this[Symbol.asyncIterator]
\* that received props, the value of handed at that time.  matched holds,
\* for the children of the last updateChildren call that the alignment gave
\* a node (n), the key of the child after the collision test (key), the
\* key of the node, and whether the alignment created the node (new).
\* The records of matched tell whether the child was a Copy element; passed
\* holds, for the Copy children of that call that the alignment gave no
\* node, whether the heap got a node at their turn (grown).
\* displaced is the node that this node replaced when its first update
\* returned no promise; gone tells that the displaced node was unmounted, or
\* was a leaf, when this node took its place in the list.  committed is the
\* value that the node's latest completed commit stored.  resumed lists the
\* arguments of the calls of iterator.next: whether the value was passed
\* itself (direct), the value passed or the value the promise passed was
\* fulfilled with (settled tells that it was), the number of commits of the
\* node when the value was read (at) and when the call was made (from).
\* yields lists, for the iterations the iterator produced, the value the
\* node commits when the iteration's child is in place.  outs lists the
\* promises handed out for the node: what run returned for a component
\* (update returns it as it is), what update returned for another parent
\* node, what refresh returned, and what render returned for a root node.
\* illformed tells that the child list of the node was not a consistent
\* doubly linked list after one of the calls that changed it.  advances
\* counts the calls of advance on the node.
Node0 ==
  [kind |-> "leaf", tag |-> "", key |-> 0, parent |-> 0,
   firstChild |-> 0, lastChild |-> 0, previousSibling |-> 0, nextSibling |-> 0,
   alternate |-> 0, dirty |-> TRUE, moved |-> FALSE, copied |-> FALSE,
   updating |-> FALSE, unmounted |-> FALSE, value |-> <<>>, dirtyStart |-> -1,
   keyedChildren |-> <<>>, onNewResult |-> 0, props |-> NoProps,
   finished |-> FALSE, iterator |-> FALSE, dirtyRemoval |-> TRUE,
   stepping |-> FALSE, available |-> FALSE, onProps |-> FALSE, iterating |-> FALSE,
   componentType |-> "", inflightPending |-> 0, enqueuedPending |-> 0,
   inflightResult |-> 0, enqueuedResult |-> 0,
   childValues |-> <<>>, dirtyChildren |-> FALSE,
   calls |-> 0, nexts |-> 0, returns |-> 0, throws |-> 0, commits |-> <<>>,
   reentered |-> FALSE, replaced |-> 0, first |-> 0,
   runs |-> 0, returned |-> 0, driving |-> 0, racing |-> FALSE, updates |-> 0,
   asked |-> 0, refused |-> 0,
   schedules |-> <<>>, cleanups |-> <<>>, regs |-> <<>>, fired |-> <<>>,
   cleaned |-> <<>>, provisions |-> <<-1, -1>>, got |-> <<0, 0>>,
   ref |-> 0, carried |-> <<>>, refd |-> <<>>,
   aggregate |-> 0, superseded |-> {}, lost |-> {},
   gathering |-> {}, waited |-> {}, done |-> {}, early |-> {},
   entries |-> 0, dirtied |-> FALSE, ups |-> {},
   handed |-> 0, hands |-> {}, took |-> <<>>, matched |-> {}, passed |-> {},
   displaced |-> 0, gone |-> FALSE, committed |-> <<>>,
   oldResult |-> 0, resumed |-> <<>>, yields |-> <<>>, outs |-> <<>>,
   illformed |-> FALSE, advances |-> 0]

Prom0 == [st |-> "pending", locked |-> FALSE, val |-> Val0, rs |-> <<>>,
          user |-> "", n |-> 0, pl |-> Val0, wait |-> FALSE]

React0 == [k |-> "", n |-> 0, a |-> 0, d |-> FALSE, tgt |-> 0]

\* The heap.  thrown is the exception in flight ("" none); ret, pend and cv
\* carry what the last method returned; cache is the renderer's cache for the
\* one root object of the model (0: no entry); log lists the errors raised
\* and where they went, since the caller or the promise job was entered.
Heap0 == [nodes |-> <<>>, proms |-> <<>>, jobs |-> <<>>, thrown |-> "", ret |-> 0,
          pend |-> 0, cv |-> <<>>, cache |-> 0, log |-> <<>>]

Internal(s, id) == s.nodes[id].kind # "leaf"

\* ---------------------------------------------------------------- promises
\* new Promise(...): ret is the new promise.
NewPromise(s) ==
  [s EXCEPT !.proms = Append(@, Prom0), !.ret = Len(s.proms) + 1]

\* A promise settles: its reactions become jobs, in the order registered.
Settle(s, p, ok, val) ==
  IF s.proms[p].st # "pending" THEN s
  ELSE [s EXCEPT !.proms[p].st = IF ok THEN "fulfilled" ELSE "rejected",
                 !.proms[p].val = val,
                 !.proms[p].rs = <<>>,
                 !.jobs = @ \o [i \in 1..Len(s.proms[p].rs) |->
                                  [r |-> s.proms[p].rs[i], ok |-> ok, val |-> val]]]

\* promise.then(...) without the new promise: register reaction r on p.
AddReaction(s, p, r) ==
  IF s.proms[p].st = "pending"
  THEN [s EXCEPT !.proms[p].rs = Append(@, r)]
  ELSE [s EXCEPT !.jobs = Append(@, [r |-> r, ok |-> s.proms[p].st = "fulfilled",
                                     val |-> s.proms[p].val])]

\* The resolve function of promise p called with x, a promise (adopted) or
\* undefined (0).  A second call is ignored.
Resolve(s, p, x) ==
  IF s.proms[p].st # "pending" \/ s.proms[p].locked THEN s
  ELSE IF x = 0 THEN Settle(s, p, TRUE, Val0)
  ELSE AddReaction([s EXCEPT !.proms[p].locked = TRUE], x,
                   [React0 EXCEPT !.k = "adopt", !.tgt = p])

\* promise.then(r): ret is the derived promise, which r's handler settles.
Then(s, p, r) ==
  LET s1 == NewPromise(s)
      d == s1.ret
  IN [AddReaction(s1, p, [r EXCEPT !.tgt = d]) EXCEPT !.ret = d]

\* Promise.race([a, b]): ret is the race promise, settled as the first of
\* a and b to settle.
Race(s, a, b) ==
  LET s1 == NewPromise(s)
      d == s1.ret
      r == [React0 EXCEPT !.k = "adopt", !.tgt = d]
  IN [AddReaction(AddReaction(s1, a, r), b, r) EXCEPT !.ret = d]

\* A promise the user code hands out (kind: "call", "next", "return",
\* "throw"), to be settled by the environment with the payload pl.
UserPromise(s, kind, node, pl) ==
  LET s1 == NewPromise(s)
      p == s1.ret
  IN [s1 EXCEPT !.proms[p].user = kind, !.proms[p].n = node, !.proms[p].pl = pl]

\* ------------------------------------------------------------ sibling list
\* The children of a node in list order, following nextSibling from
\* firstChild (at most as many steps as there are nodes).
RECURSIVE Chain(_, _, _)
Chain(s, node, fuel) ==
  IF node = 0 \/ fuel = 0 THEN <<>>
  ELSE <<node>> \o Chain(s, s.nodes[node].nextSibling, fuel - 1)
ChildList(s, this) == Chain(s, s.nodes[this].firstChild, Len(s.nodes))

\* The child list of the parent node is a consistent doubly linked list in
\* the heap s.
WellFormedIn(s, par) ==
  LET list == ChildList(s, par) IN
  /\ (s.nodes[par].firstChild = 0) = (s.nodes[par].lastChild = 0)
  /\ list # <<>> =>
       /\ s.nodes[list[1]].previousSibling = 0
       /\ list[Len(list)] = s.nodes[par].lastChild
       /\ s.nodes[s.nodes[par].lastChild].nextSibling = 0
  /\ \A i \in 1..Len(list) :
       /\ i < Len(list) => s.nodes[list[i + 1]].previousSibling = list[i]
       /\ \A j \in 1..Len(list) : i # j => list[i] # list[j]

\* The heap after a change of the child list of the node: illformed notes a
\* list that is not consistent.
relinked(s, this) ==
  [s EXCEPT !.nodes[this].illformed = @ \/ ~WellFormedIn(s, this)]

\* ParentNode.appendChild
appendChild(s, this, child) ==
  relinked(
    IF s.nodes[this].lastChild = 0
    THEN [s EXCEPT !.nodes[this].firstChild = child,
                   !.nodes[this].lastChild = child,
                   !.nodes[child].previousSibling = 0,
                   !.nodes[child].nextSibling = 0]
    ELSE LET last == s.nodes[this].lastChild IN
         [s EXCEPT !.nodes[child].previousSibling = last,
                   !.nodes[child].nextSibling = 0,
                   !.nodes[last].nextSibling = child,
                   !.nodes[this].lastChild = child], this)

\* ParentNode.insertBefore
insertBefore(s, this, child, reference) ==
  IF reference = 0 THEN appendChild(s, this, child)
  ELSE IF child = reference THEN s
  ELSE LET s1 == [s EXCEPT !.nodes[child].nextSibling = reference]
           prev == s1.nodes[reference].previousSibling
           s2 == IF prev = 0
                 THEN [s1 EXCEPT !.nodes[child].previousSibling = 0,
                                 !.nodes[this].firstChild = child]
                 ELSE [s1 EXCEPT !.nodes[child].previousSibling = prev,
                                 !.nodes[prev].nextSibling = child]
       IN relinked([s2 EXCEPT !.nodes[reference].previousSibling = child], this)

\* A removeChild that leaves the links of the removed node as they are.
removeChildKeeps(s, this, child) ==
  LET prev == s.nodes[child].previousSibling
      next == s.nodes[child].nextSibling
      s1 == IF prev = 0
            THEN [s EXCEPT !.nodes[this].firstChild = next]
            ELSE [s EXCEPT !.nodes[prev].nextSibling = next]
  IN relinked(IF next = 0
              THEN [s1 EXCEPT !.nodes[this].lastChild = prev]
              ELSE [s1 EXCEPT !.nodes[next].previousSibling = prev], this)

\* ParentNode.removeChild
removeChild(s, this, child) ==
  LET prev == s.nodes[child].previousSibling
      next == s.nodes[child].nextSibling
      s1 == IF prev = 0
            THEN [s EXCEPT !.nodes[this].firstChild = next]
            ELSE [s EXCEPT !.nodes[prev].nextSibling = next]
      s2 == IF next = 0
            THEN [s1 EXCEPT !.nodes[this].lastChild = prev]
            ELSE [s1 EXCEPT !.nodes[next].previousSibling = prev]
  IN relinked([s2 EXCEPT !.nodes[child].previousSibling = 0,
                         !.nodes[child].nextSibling = 0], this)

\* ParentNode.replaceChild
replaceChild(s, this, child, reference) ==
  removeChild(insertBefore(s, this, child, reference), this, reference)

\* ------------------------------------------------------------- createNode
\* createNode(parent, renderer, child): ret is the new node.  The node takes
\* child.key, also when the alignment has demoted the child to unkeyed.
createNode(s, parent, child) ==
  LET kind == IF child.t # "el" THEN "leaf"
              ELSE IF child.tag = Fragment THEN "frag"
              ELSE IF IsComp(child.tag) THEN "comp"
              ELSE "host"
      node == IF kind = "leaf" THEN Node0
              ELSE [Node0 EXCEPT !.kind = kind, !.tag = child.tag, !.key = child.key,
                                 !.parent = parent, !.moved = TRUE,
                                 !.props = IF kind = "comp"
                                           THEN [p |-> child.p, children |-> child.ch]
                                           ELSE NoProps]
  IN [s EXCEPT !.nodes = Append(@, node), !.ret = Len(s.nodes) + 1]

\* Let(v, K) is K with its parameter bound to the value v: LET x == v IN ...
\* with the value worked out once, and before K is entered, as a statement
\* of the source ends before the next one starts.
Let(v, K(_)) == CASE {v} # {} -> K(v)

\* The methods call one another.  Call(s, m, this, arg) is the call of the
\* method m on the node this, dispatched on the class of the node (its
\* kind) as the virtual call of the source; the operators below are the
\* call sites.  A method that finds an exception in flight (thrown # "")
\* does nothing, as the statements an exception skips.
RECURSIVE Call(_, _, _, _)
updateChildren(s, this, children) == Call(s, "updateChildren", this, children)
update(s, node, props, ref) == Call(s, "update", node, [props |-> props, ref |-> ref])
commit(s, node) == Call(s, "commit", node, 0)
unmount(s, node, dirty) == Call(s, "unmount", node, dirty)
catch(s, node, reason) == Call(s, "catch", node, reason)
run(s, node) == Call(s, "run", node, 0)
step(s, node) == Call(s, "step", node, 0)
refresh(s, node) == Call(s, "refresh", node, 0)
render(s, children) == Call(s, "render", 0, children)

\* ---------------------------------------------------------- commitChildren
IsString(v) == Len(v) = 1 /\ v[1].s

\* while (child.alternate !== undefined) child = child.alternate
RECURSIVE AltEnd(_, _, _)
AltEnd(s, child, fuel) ==
  IF s.nodes[child].alternate = 0 \/ fuel = 0 THEN child
  ELSE AltEnd(s, s.nodes[child].alternate, fuel - 1)

\* The search of commitChildren for the last non-string value before
\* oldLength: its 0-based index, or -1 when there is none.
RECURSIVE LastNonString(_, _)
LastNonString(childValues, j) ==
  IF j < 1 THEN -1
  ELSE IF ~childValues[j].s THEN j - 1
  ELSE LastNonString(childValues, j - 1)

\* The dirty bookkeeping of one turn of the loop of commitChildren, for the
\* child c (the end of its alternates) and the child values so far.
commitDirty(s, this, c, childValues, oldLength) ==
  LET changed == s.nodes[c].dirty \/ (Internal(s, c) /\ s.nodes[c].moved)
      found == LastNonString(childValues, oldLength)
      dirtyStart ==
        IF Internal(s, c) /\ ~s.nodes[c].moved /\ s.nodes[c].dirtyStart # -1
        THEN oldLength + s.nodes[c].dirtyStart
        ELSE IF found # -1 THEN found ELSE s.nodes[this].dirtyStart
  IN [s EXCEPT !.nodes[this].dirtyStart =
                  IF changed /\ ~s.nodes[this].dirty THEN dirtyStart ELSE @,
               !.nodes[this].dirty = @ \/ changed,
               !.nodes[c].dirty = FALSE,
               !.nodes[c].copied = IF Internal(s, c) THEN FALSE ELSE @,
               !.nodes[c].moved = IF Internal(s, c) THEN FALSE ELSE @,
               !.nodes[c].dirtyStart = IF Internal(s, c) THEN -1 ELSE @]

\* One turn of the loop of commitChildren: L holds the heap and the locals
\* buffer (has: it is defined), childValues and oldLength; c is the end of
\* the alternates of the node the turn is at.
commitValue(L, this, c) ==
  LET v == L.s.nodes[c].value
      str == IsString(v)
      shown == L.s.nodes[c].tag # Portal
      flushed == IF L.has THEN Append(L.childValues, Str(L.buffer)) ELSE L.childValues
  IN Let(IF str THEN L.childValues ELSE IF shown THEN flushed \o v ELSE L.childValues,
         LAMBDA childValues :
           [s |-> commitDirty(L.s, this, c, childValues, L.oldLength),
            has |-> IF str THEN TRUE ELSE IF shown THEN FALSE ELSE L.has,
            buffer |-> IF str THEN (IF L.has THEN L.buffer \o v[1].x ELSE v[1].x)
                       ELSE IF shown THEN <<>> ELSE L.buffer,
            childValues |-> childValues,
            oldLength |-> Len(childValues)])

commitChild(L, this, child) == commitValue(L, this, AltEnd(L.s, child, Len(L.s.nodes)))

RECURSIVE commitLoop(_, _, _)
commitLoop(L, this, children) ==
  IF children = <<>> THEN L
  ELSE commitLoop(commitChild(L, this, Head(children)), this, Tail(children))

\* The end of commitChildren: the buffer is flushed and a node without
\* children is dirty.  The child values are left in cv.
commitEnd(L, this) ==
  [L.s EXCEPT !.cv = IF L.has THEN Append(L.childValues, Str(L.buffer))
                     ELSE L.childValues,
              !.nodes[this].entries = @ + 1,
              !.nodes[this].dirtied = L.s.nodes[this].dirty
                                        \/ L.s.nodes[this].firstChild = 0,
              !.nodes[this].dirty = @ \/ L.s.nodes[this].firstChild = 0]

\* ParentNode.commitChildren
commitChildren(s, this) ==
  commitEnd(commitLoop([s |-> s, has |-> FALSE, buffer |-> <<>>, childValues |-> <<>>,
                        oldLength |-> 0], this, ChildList(s, this)), this)

\* ------------------------------------------------------------------ catch
\* The intrinsic of a host tag is the backend's.  The backend of the model
\* returns one value per host node; the intrinsic of the tag "bad" raises.
IntrinsicThrows(tag) == tag = "bad"

\* The value the intrinsic of the host node returns for its props.  The
\* intrinsic of Portal returns the root of its props: p = 0 stands for a
\* root that is an object of the backend, another p for the string of that
\* digit (a backend of strings).
Intrinsic(n, node) ==
  IF n.tag = Portal /\ n.props.p # 0 THEN <<Str(<<n.props.p>>)>> ELSE <<El(node)>>

\* The heap with one more event in the log.  e is "raise": the body or the
\* intrinsic of the node raised an error, and live are the nodes that have
\* an iterator and are not finished at that time; "throw": iterator.throw of
\* the node is entered; "top": a node without parent raises the error again.
logged(s, e, node) ==
  [s EXCEPT !.log = Append(@, [e |-> e, n |-> node,
                               live |-> IF e # "raise" THEN {}
                                        ELSE {a \in 1..Len(s.nodes) :
                                                s.nodes[a].iterator
                                                  /\ ~s.nodes[a].finished}])]

\* this.parent.catch(err), for an error the node raised.
raise(s, node, reason) ==
  catch(logged(s, "raise", node), s.nodes[node].parent, reason)

\* A catch that raises the error again at once.
catchNot(s, node, reason) == [logged(s, "top", node) EXCEPT !.thrown = reason]

\* ParentNode.catch
ParentNode_catch(s, node, reason) ==
  IF s.thrown # "" THEN s
  ELSE IF s.nodes[node].parent = 0
  THEN [logged(s, "top", node) EXCEPT !.thrown = reason]
  ELSE catch(s, s.nodes[node].parent, reason)

\* What the call number k of iterator.next produces for the node n: the
\* iteration, or the error the body raises (err).  A generator is done from
\* call doneAt on, after it raised, and after a throw() it did not survive.
Iteration(n, k) ==
  LET b == Behav(n.tag)
      done == \/ b.doneAt # 0 /\ k >= b.doneAt
              \/ b.throwAt # 0 /\ k > b.throwAt
              \/ n.throws > 0 /\ b.onThrow # "yield"
  IN IF b.throwAt = k /\ ~done THEN [Val0 EXCEPT !.err = "E_body"]
     ELSE [Val0 EXCEPT !.child = IF done /\ ~b.doneOut THEN NoChildren
                                 ELSE Output(n.tag, n.props),
                       !.done = done]

\* this.onProps(this.props): the props request of Context[Symbol.asyncIterator]
\* resolves, and the body of the generator goes on to its next yield, or to
\* its end when the node is unmounted.  The promise of the iterator.next
\* call that waited for the props can settle from now on.
resolveProps(s, node) ==
  LET n == s.nodes[node] IN
  IF ~n.onProps THEN s
  ELSE [s EXCEPT !.nodes[node].onProps = FALSE,
                 !.nodes[node].took = IF n.unmounted THEN @ ELSE Append(@, n.handed),
                 !.proms = SubSeq([p \in 1..Len(s.proms) |->
                                     IF s.proms[p].n = node /\ s.proms[p].wait
                                     THEN [s.proms[p] EXCEPT
                                             !.wait = FALSE,
                                             !.pl = IF n.unmounted
                                                    THEN [Val0 EXCEPT !.done = TRUE]
                                                    ELSE Iteration(n, n.nexts)]
                                     ELSE s.proms[p]], 1, Len(s.proms))]

\* The child a generator yields from iterator.throw when it handles the error.
Fallback == One(Text(<<0>>))

\* What iterator.throw(reason) produces for the behaviour b: the iteration,
\* or the error raised again (err).
Thrown(b, reason) ==
  IF b.onThrow = "rethrow" THEN [Val0 EXCEPT !.err = reason]
  ELSE [Val0 EXCEPT !.child = IF b.onThrow = "yield" THEN Fallback ELSE NoChildren,
                    !.done = b.onThrow = "done"]

\* ComponentNode.catch.  An async iterator's throw returns a promise, which
\* the environment settles.
ComponentNode_catch(s, node, reason) ==
  LET n == s.nodes[node]
      b == Behav(n.tag)
      entered == [logged(resolveProps(s, node), "throw", node)
                    EXCEPT !.nodes[node].throws = @ + 1]
      iteration == Thrown(b, reason)
  IN
  IF s.thrown # "" THEN s
  ELSE IF ~n.iterator \/ b.onThrow = "none" \/ n.finished
  THEN ParentNode_catch(s, node, reason)
  ELSE IF b.type = "agen"
  THEN Let(UserPromise(entered, "throw", node, iteration), LAMBDA s1 :
         Then(s1, s1.ret, [React0 EXCEPT !.k = "throwThen", !.n = node]))
  ELSE IF iteration.err # ""
  THEN raise(entered, node, iteration.err)
  ELSE updateChildren([entered EXCEPT !.nodes[node].finished = iteration.done],
                      node, iteration.child)

\* ----------------------------------------------------------------- commit
\* The end of the three commit methods: the parent commits when this node
\* was not being updated and is dirty; updating is cleared.
\* What the test at the end of a commit of the node did: s is the heap at
\* the test and s1 the heap after it.
upped(s, s1, node) ==
  LET n == s.nodes[node]
      grew == n.parent # 0 /\ s1.nodes[n.parent].entries > s.nodes[n.parent].entries
  IN [s1 EXCEPT !.nodes[node].ups =
                   @ \cup {[updating |-> n.updating, dirty |-> n.dirty, grew |-> grew,
                            pdirty |-> grew /\ s1.nodes[n.parent].dirtied]}]

\* An end of commit that does not look at the updating flag.
commitUpAlways(s, node) ==
  IF s.thrown # "" THEN s
  ELSE Let(IF s.nodes[node].dirty /\ s.nodes[node].parent # 0
           THEN commit(s, s.nodes[node].parent)
           ELSE s,
           LAMBDA s1 : IF s1.thrown # "" THEN s1
                       ELSE [upped(s, s1, node) EXCEPT !.nodes[node].updating = FALSE,
                                                       !.ret = 0])

commitUp(s, node) ==
  IF s.thrown # "" THEN s
  ELSE Let(IF ~s.nodes[node].updating /\ s.nodes[node].dirty /\ s.nodes[node].parent # 0
           THEN commit(s, s.nodes[node].parent)
           ELSE s,
           LAMBDA s1 : IF s1.thrown # "" THEN s1
                       ELSE [upped(s, s1, node) EXCEPT !.nodes[node].updating = FALSE,
                                                       !.ret = 0])

\* if (this.ref !== undefined) this.ref(this.value)
callRef(s, node) ==
  IF s.nodes[node].ref = 0 THEN s
  ELSE [s EXCEPT !.nodes[node].refd = Append(@, s.nodes[node].value)]

\* The value the commit has stored, noted for a node with a ref.
stored(s, node) ==
  IF s.nodes[node].ref = 0 THEN s
  ELSE [s EXCEPT !.nodes[node].carried = Append(@, s.nodes[node].value)]

\* FragmentNode.commit
FragmentNode_commit(s, node) ==
  IF s.thrown # "" THEN s
  ELSE Let(commitChildren(s, node), LAMBDA s1 :
         commitUp(callRef(stored([s1 EXCEPT !.nodes[node].value = s1.cv,
                                     !.nodes[node].committed = s1.cv], node),
                          node), node))

\* A host commit that calls the ref before commitSelf.
commitRefFirst(s, node) ==
  IF s.thrown # "" THEN s
  ELSE Let(callRef(commitChildren(s, node), node), LAMBDA s1 :
         IF IntrinsicThrows(s.nodes[node].tag)
         THEN IF s.nodes[node].parent = 0
              THEN [logged(logged(s1, "raise", node), "top", node)
                      EXCEPT !.thrown = "E_intrinsic"]
              ELSE raise(s1, node, "E_intrinsic")
         ELSE commitUp(stored([s1 EXCEPT !.nodes[node].childValues = s1.cv,
                                  !.nodes[node].dirtyChildren = s1.nodes[node].dirty,
                                  !.nodes[node].commits = Append(@, s1.cv),
                                  !.nodes[node].dirty =
                                     s1.nodes[node].value # Intrinsic(s1.nodes[node], node),
                                  !.nodes[node].value = Intrinsic(s1.nodes[node], node),
                           !.nodes[node].committed = Intrinsic(s1.nodes[node], node)], node), node))

\* HostNode.commit, with HostNode.commitSelf: the intrinsic returns the
\* node's one backend value, or raises.
HostNode_commit(s, node) ==
  IF s.thrown # "" THEN s
  ELSE Let(commitChildren(s, node), LAMBDA s1 :
         IF IntrinsicThrows(s.nodes[node].tag)
         THEN IF s.nodes[node].parent = 0
              THEN [logged(logged(s1, "raise", node), "top", node)
                      EXCEPT !.thrown = "E_intrinsic"]
              ELSE raise(s1, node, "E_intrinsic")
         ELSE commitUp(callRef(stored(
                [s1 EXCEPT !.nodes[node].childValues = s1.cv,
                           !.nodes[node].dirtyChildren = s1.nodes[node].dirty,
                           !.nodes[node].commits = Append(@, s1.cv),
                           !.nodes[node].dirty = s1.nodes[node].value # Intrinsic(s1.nodes[node], node),
                           !.nodes[node].value = Intrinsic(s1.nodes[node], node),
                           !.nodes[node].committed = Intrinsic(s1.nodes[node], node)], node), node), node))

\* The calls callback(this.value) of commit, for the callbacks scheduled.
Fired(n, value) ==
  SubSeq([i \in 1..Len(n.schedules) |->
            [cb |-> n.schedules[i], at |-> Len(n.commits) + 1, value |-> value]],
         1, Len(n.schedules))

\* A commit that leaves the schedules as they are.
commitKeeps(s, node) ==
  IF s.thrown # "" THEN s
  ELSE Let(commitChildren(s, node), LAMBDA s1 :
         commitUp(callRef(stored(
                    [s1 EXCEPT !.nodes[node].value = s1.cv,
                               !.nodes[node].committed = s1.cv,
                               !.nodes[node].commits = Append(@, s1.cv),
                               !.nodes[node].fired = @ \o Fired(s1.nodes[node], s1.cv)],
                    node), node), node))

\* ComponentNode.commit
ComponentNode_commit(s, node) ==
  IF s.thrown # "" THEN s
  ELSE Let(commitChildren(s, node), LAMBDA s1 :
         commitUp(callRef(stored(
                    [s1 EXCEPT !.nodes[node].value = s1.cv,
                               !.nodes[node].committed = s1.cv,
                               !.nodes[node].commits = Append(@, s1.cv),
                               !.nodes[node].schedules = <<>>,
                               !.nodes[node].fired = @ \o Fired(s1.nodes[node], s1.cv)],
                    node), node), node))

\* ---------------------------------------------------------------- unmount
\* ParentNode.unmountChildren
RECURSIVE unmountLoop(_, _, _)
unmountLoop(s, children, dirty) ==
  IF children = <<>> \/ s.thrown # "" THEN s
  ELSE unmountLoop(IF Internal(s, Head(children))
                   THEN unmount(s, Head(children), dirty)
                   ELSE s,
                   Tail(children), dirty)
unmountChildren(s, this, dirty) ==
  IF s.thrown # "" THEN s
  ELSE Let(unmountLoop(s, ChildList(s, this), dirty), LAMBDA s1 :
         IF s1.thrown # "" THEN s1 ELSE [s1 EXCEPT !.ret = 0])

\* FragmentNode.unmount
FragmentNode_unmount(s, node, dirty) ==
  IF s.thrown # "" THEN s
  ELSE IF s.nodes[node].unmounted THEN [s EXCEPT !.ret = 0]
  ELSE unmountChildren([s EXCEPT !.nodes[node].unmounted = TRUE], node, dirty)

\* HostNode.unmount.  The intrinsics of the model return no iterator, so a
\* host has none to return.
HostNode_unmount(s, node, dirty) ==
  LET n == s.nodes[node] IN
  IF s.thrown # "" THEN s
  ELSE IF n.unmounted THEN [s EXCEPT !.ret = 0]
  ELSE unmountChildren([s EXCEPT !.nodes[node].dirtyRemoval =
                                    IF n.finished THEN @ ELSE dirty,
                                 !.nodes[node].finished = TRUE,
                                 !.nodes[node].unmounted = TRUE],
                       node, n.tag = Portal)

\* ComponentNode.unmount.  An async iterator's return yields a promise,
\* which the environment settles.
ComponentNode_unmount(s, node, dirty) ==
  LET n == s.nodes[node]
      entered == [resolveProps([s EXCEPT !.nodes[node].updating = FALSE,
                                         !.nodes[node].unmounted = TRUE,
                                         !.nodes[node].cleaned = @ \o n.cleanups,
                                         !.nodes[node].cleanups = <<>>,
                                         !.nodes[node].finished = TRUE], node)
                    EXCEPT !.nodes[node].returns = IF n.iterator THEN @ + 1 ELSE @]
  IN
  IF s.thrown # "" THEN s
  ELSE IF n.unmounted THEN [s EXCEPT !.ret = 0]
  ELSE IF n.finished
  THEN [s EXCEPT !.nodes[node].updating = FALSE, !.nodes[node].unmounted = TRUE,
                 !.nodes[node].cleaned = @ \o n.cleanups,
                 !.nodes[node].cleanups = <<>>, !.ret = 0]
  ELSE IF n.iterator /\ Behav(n.tag).asyncReturn
  THEN Let(UserPromise(entered, "return", node, [Val0 EXCEPT !.done = TRUE]),
           LAMBDA s1 :
             Then(s1, s1.ret,
                  [React0 EXCEPT !.k = "unmountThen", !.n = node, !.d = dirty]))
  ELSE unmountChildren(entered, node, dirty)

\* --------------------------------------------------------- updateChildren
\* Number.prototype.toString for the numbers of the model (0..99).
toString(p) == IF p < 10 THEN <<p>> ELSE <<p \div 10, p % 10>>

\* normalize(child)
normalize(child) ==
  IF child.t = "nul" THEN Null
  ELSE IF child.t = "str" \/ child.t = "el" THEN child
  ELSE Text(toString(child.p))

\* flatten(children): the normalized children, a nested iterable wrapped in
\* a Fragment element.
flatten(children) ==
  IF ~children.iter
  THEN [i \in 1..Len(children.items) |-> normalize(children.items[i])]
  ELSE [i \in 1..Len(children.items) |->
          IF children.items[i].t = "arr"
          THEN Elem(Fragment, 0, 0, children.items[i].ch)
          ELSE normalize(children.items[i])]

\* keyedChildren is a Map: a sequence of entries in insertion order.
MapHas(m, k) == \E i \in 1..Len(m) : m[i].k = k
\* A lookup that never finds the key.
MapGetMiss(m, k) == 0
MapGet(m, k) == IF MapHas(m, k) THEN (CHOOSE e \in {m[i] : i \in 1..Len(m)} : e.k = k).v
                ELSE 0
MapDelete(m, k) == SelectSeq(m, LAMBDA e : e.k # k)
MapSet(m, k, v) ==
  IF MapHas(m, k) THEN [i \in 1..Len(m) |-> IF m[i].k = k THEN [k |-> k, v |-> v] ELSE m[i]]
  ELSE Append(m, [k |-> k, v |-> v])

\* A cursor that stays where it is.
SkipNone(s, node, fuel) == node

\* while (node !== undefined && node.key !== undefined) node = node.nextSibling
RECURSIVE SkipKeyed(_, _, _)
SkipKeyed(s, node, fuel) ==
  IF node = 0 \/ fuel = 0 THEN 0
  ELSE IF s.nodes[node].key = 0 THEN node
  ELSE SkipKeyed(s, s.nodes[node].nextSibling, fuel - 1)

\* The promise result1 that a child update returned to the call on this.
gathered(s, this, result1) ==
  IF result1 = 0 THEN s
  ELSE [s EXCEPT !.nodes[this].gathering = @ \cup {result1}]

\* An aggregate that is the result of the last child alone.
aggregateLast(s, result, result1) ==
  IF result1 = 0 THEN [s EXCEPT !.ret = result]
  ELSE [s EXCEPT !.ret = result1]

\* result = result === undefined ? result1 : result.then(() => result1)
Aggregate(s, result, result1) ==
  IF result1 = 0 THEN [s EXCEPT !.ret = result]
  ELSE IF result = 0 THEN [s EXCEPT !.ret = result1]
  ELSE Then(s, result, [React0 EXCEPT !.k = "agg", !.a = result1])

\* The alignment stage of one turn of the loop of updateChildren.  L holds
\* the heap and the locals node, keyedChildren and result.  The outcome adds
\* key (the child's key, undefined after a collision) and skip (continue).
Align(L, this, child) ==
  LET s == L.s
      node == L.node
      key == IF child.key # 0 /\ MapHas(L.keyedChildren, child.key) THEN 0
             ELSE child.key
      isCopy == child.tag = Copy
      created == createNode(s, this, child)
      new == created.ret
      keyedNode == MapGet(s.nodes[this].keyedChildren, key)
      claimed == [s EXCEPT !.nodes[this].keyedChildren = MapDelete(@, key)]
      out(s1, node1, skip) ==
        [s |-> IF skip
               THEN [s1 EXCEPT !.nodes[this].passed =
                                  @ \cup {[grown |-> Len(s1.nodes) > Len(s.nodes)]}]
               ELSE [s1 EXCEPT !.nodes[this].matched =
                                  @ \cup {[n |-> node1, key |-> key,
                                           nkey |-> s1.nodes[node1].key,
                                           new |-> node1 > Len(s.nodes),
                                           copy |-> isCopy]}],
         node |-> node1, key |-> key, skip |-> skip,
         keyedChildren |-> L.keyedChildren, result |-> L.result]
  IN
  IF node = 0
  THEN IF key = 0
       THEN IF isCopy THEN out(s, node, TRUE)
            ELSE out(appendChild(created, this, new), new, FALSE)
       ELSE IF keyedNode = 0
            THEN IF isCopy THEN out(s, node, TRUE)
                 ELSE out(appendChild(created, this, new), new, FALSE)
            ELSE out(appendChild(
                       removeChild([claimed EXCEPT !.nodes[keyedNode].moved = TRUE],
                                   this, keyedNode),
                       this, keyedNode), keyedNode, FALSE)
  ELSE IF key # 0
  THEN IF keyedNode = 0
       THEN IF isCopy THEN out(s, node, TRUE)
            ELSE out(insertBefore(created, this, new, node), new, FALSE)
       ELSE IF node # keyedNode
            THEN out(insertBefore(
                       removeChild([claimed EXCEPT !.nodes[keyedNode].moved = TRUE],
                                   this, keyedNode),
                       this, keyedNode, node), keyedNode, FALSE)
            ELSE out(claimed, keyedNode, FALSE)
  ELSE IF s.nodes[node].key # 0
  THEN LET node1 == SkipKeyed(s, node, Len(s.nodes)) IN
       IF node1 = 0
       THEN IF isCopy THEN out(s, 0, TRUE)
            ELSE out(appendChild(created, this, new), new, FALSE)
       ELSE out(s, node1, FALSE)
  ELSE out(s, node, FALSE)

\* The new node takes the place of node after an update without a promise.
displace(s, this, newNode, node) ==
  [replaceChild(s, this, newNode, node)
     EXCEPT !.nodes[newNode].displaced = node,
            !.nodes[newNode].gone = s.nodes[node].kind = "leaf" \/ s.nodes[node].unmounted]

\* A replacement that leaves the old node mounted.
ReplacedKept(A, this, newNode, s) ==
  IF s.thrown # "" THEN [A EXCEPT !.s = s]
  ELSE [A EXCEPT !.s = displace(s, this, newNode, A.node), !.node = newNode]

\* The end of a replacement: s holds the heap after the new node's update
\* and, in ret, its result1.
Replaced(A, this, newNode, s) ==
  IF s.thrown # "" THEN [A EXCEPT !.s = s]
  ELSE IF s.ret = 0
  THEN Let(IF Internal(s, A.node) THEN unmount(s, A.node, TRUE) ELSE s, LAMBDA s1 :
         IF s1.thrown # "" THEN [A EXCEPT !.s = s1]
         ELSE [A EXCEPT !.s = displace(s1, this, newNode, A.node),
                        !.node = newNode])
  ELSE Let(Then([s EXCEPT !.nodes[newNode].alternate = A.node,
                          !.nodes[newNode].replaced = A.node,
                          !.nodes[newNode].first = s.ret], s.ret,
                [React0 EXCEPT !.k = "alt", !.n = newNode]), LAMBDA s1 :
       Let(Aggregate(gathered(s1, this, s.ret), A.result, s1.ret), LAMBDA s2 :
         [A EXCEPT !.s = replaceChild(s2, this, newNode, A.node),
                   !.node = newNode, !.result = s2.ret]))

\* The replacement of node by a new node for child (the tags differ).
Replace(A, this, child) ==
  Let(createNode(A.s, this, child), LAMBDA created :
    Replaced(A, this, created.ret,
             IF Internal(created, created.ret)
             THEN update(created, created.ret, [p |-> child.p, children |-> child.ch],
                  child.ref)
             ELSE [created EXCEPT !.nodes[created.ret].value =
                                     IF child.t = "str" THEN <<Str(child.x)>> ELSE <<>>,
                                  !.ret = 0]))

\* The end of one turn: the node is entered under its key and the cursor
\* moves to its next sibling.
Entered(U, key) ==
  IF U.s.thrown # "" THEN U
  ELSE [U EXCEPT !.keyedChildren = IF key # 0 THEN MapSet(@, key, U.node) ELSE @,
                 !.node = U.s.nodes[U.node].nextSibling]

\* The value of a leaf node for the child: renderer.text(child) or undefined.
LeafValue(child) == IF child.t = "str" THEN <<Str(child.x)>> ELSE <<>>

\* An updating stage that updates the node of a Copy child with the props
\* of the Copy element.
UpdatingCopies(A, this, child) ==
  Entered(
    IF A.s.nodes[A.node].tag # child.tag /\ child.tag # Copy THEN Replace(A, this, child)
    ELSE IF Internal(A.s, A.node)
    THEN Let(update(A.s, A.node, [p |-> child.p, children |-> child.ch],
                  child.ref), LAMBDA s1 :
           IF s1.thrown # "" THEN [A EXCEPT !.s = s1]
           ELSE Let(Aggregate(gathered(s1, this, s1.ret), A.result, s1.ret), LAMBDA s2 :
                  [A EXCEPT !.s = s2, !.result = s2.ret]))
    ELSE A,
    A.key)

\* The updating stage of one turn, after the alignment A.
Updating(A, this, child) ==
  Entered(
    IF child.tag = Copy
    THEN [A EXCEPT !.s = IF Internal(A.s, A.node)
                         THEN [A.s EXCEPT !.nodes[A.node].copied = TRUE]
                         ELSE A.s]
    ELSE IF A.s.nodes[A.node].tag # child.tag THEN Replace(A, this, child)
    ELSE IF Internal(A.s, A.node)
    THEN Let(update(A.s, A.node, [p |-> child.p, children |-> child.ch],
                  child.ref), LAMBDA s1 :
           IF s1.thrown # "" THEN [A EXCEPT !.s = s1]
           ELSE Let(Aggregate(gathered(s1, this, s1.ret), A.result, s1.ret), LAMBDA s2 :
                  [A EXCEPT !.s = s2, !.result = s2.ret]))
    ELSE [A EXCEPT !.s = [A.s EXCEPT !.nodes[A.node].dirty =
                                        A.s.nodes[A.node].value # LeafValue(child),
                                     !.nodes[A.node].value = LeafValue(child)]],
    A.key)

\* One turn of the loop over the children, after its alignment A.
Turn(A, this, child) == IF A.skip THEN A ELSE Updating(A, this, child)

RECURSIVE alignLoop(_, _, _)
alignLoop(L, this, children) ==
  IF children = <<>> \/ L.s.thrown # "" THEN L
  ELSE alignLoop(Turn(Align(L, this, Head(children)), this, Head(children)),
                 this, Tail(children))

\* One turn of the loop after the alignment: an unkeyed node is unmounted
\* and removed.
Trim(s, this, node) ==
  IF s.nodes[node].key # 0 THEN s
  ELSE Let(IF Internal(s, node) THEN unmount(s, node, TRUE) ELSE s, LAMBDA s1 :
         IF s1.thrown # "" THEN s1 ELSE removeChild(s1, this, node))

\* The loop after the alignment, over the nodes from the cursor on.
RECURSIVE trimLoop(_, _, _)
trimLoop(s, this, rest) ==
  IF rest = <<>> \/ s.thrown # "" THEN s
  ELSE trimLoop(Trim(s, this, Head(rest)), this, Tail(rest))

\* unmount excess keyed children
Excess(s, this, node) ==
  Let(unmount(s, node, TRUE), LAMBDA s1 :
    IF s1.thrown # "" THEN s1 ELSE removeChild(s1, this, node))

RECURSIVE keyedLoop(_, _, _)
keyedLoop(s, this, entries) ==
  IF entries = <<>> \/ s.thrown # "" THEN s
  ELSE keyedLoop(Excess(s, this, Head(entries).v), this, Tail(entries))

\* The end of updateChildren, after the loops: the keyed children are
\* stored, the result is handed to the pass before (onNewResult) and the
\* node commits, now or when the result settles.
updateEnd(s, this, result, keyedChildren) ==
  Let([(IF s.nodes[this].onNewResult # 0
        THEN Resolve(s, s.nodes[this].onNewResult, result)
        ELSE s) EXCEPT !.nodes[this].keyedChildren = keyedChildren,
                       !.nodes[this].aggregate = result,
                       !.nodes[this].waited =
                          @ \cup {<<result, c>> : c \in s.nodes[this].gathering},
                       !.nodes[this].onNewResult = 0], LAMBDA s1 :
    IF result = 0
    THEN Let(commit(s1, this), LAMBDA s2 :
           IF s2.thrown # "" THEN s2 ELSE [s2 EXCEPT !.ret = 0])
    ELSE Let(Then(s1, result, [React0 EXCEPT !.k = "commit", !.n = this,
                                             !.a = result]), LAMBDA s2 :
         Let(NewPromise(s2), LAMBDA s3 :
           Race([s3 EXCEPT !.nodes[this].onNewResult = s3.ret,
                           !.nodes[this].outs =
                              IF s3.nodes[this].kind = "comp" THEN @
                              ELSE Append(@, Len(s3.proms) + 1)],
                s2.ret, s3.ret))))

\* The entry of updateChildren: the aggregate of the call before is
\* superseded when it is still pending.
began(s, this) ==
  LET n == s.nodes[this] IN
  IF n.aggregate # 0 /\ s.proms[n.aggregate].st = "pending"
  THEN [s EXCEPT !.nodes[this].superseded = @ \cup {n.aggregate},
                 !.nodes[this].gathering = {}, !.nodes[this].matched = {},
                 !.nodes[this].passed = {}]
  ELSE [s EXCEPT !.nodes[this].gathering = {}, !.nodes[this].matched = {},
                 !.nodes[this].passed = {}]

\* The entry of the commit chained to the aggregate.
chained(s, node, aggregate) ==
  LET n == s.nodes[node] IN
  [s EXCEPT !.nodes[node].lost =
              IF aggregate \in n.superseded THEN @ \cup {aggregate} ELSE @,
            !.nodes[node].done = @ \cup {aggregate},
            !.nodes[node].early =
              @ \cup {w \in n.waited :
                        w[1] = aggregate /\ s.proms[w[2]].st = "pending"}]

\* ParentNode.updateChildren
ParentNode_updateChildren(s, this, children) ==
  IF s.thrown # "" THEN s
  ELSE
    Let(alignLoop([s |-> began(s, this), node |-> s.nodes[this].firstChild, key |-> 0,
                   skip |-> FALSE, keyedChildren |-> <<>>, result |-> 0],
                  this, flatten(children)), LAMBDA L :
    Let(trimLoop(L.s, this, Chain(L.s, L.node, Len(L.s.nodes))), LAMBDA s1 :
    Let(keyedLoop(s1, this, s1.nodes[this].keyedChildren), LAMBDA s2 :
      IF s2.thrown # "" THEN s2
      ELSE updateEnd(s2, this, L.result, L.keyedChildren))))

\* ComponentNode.updateChildren: an iterable is wrapped in a Fragment element.
ComponentNode_updateChildren(s, this, children) ==
  ParentNode_updateChildren([s EXCEPT !.nodes[this].updates = @ + 1], this,
                            IF children.iter THEN One(Elem(Fragment, 0, 0, children))
                            ELSE children)

\* -------------------------------------------------------------- scheduler
\* if (this.onProps === undefined) this.available = true;
\* else { this.onProps(this.props); this.onProps = undefined }
handProps(s, node) ==
  IF ~s.nodes[node].onProps THEN [s EXCEPT !.nodes[node].available = TRUE]
  ELSE resolveProps(s, node)

\* A handoff that sets the available flag in either case.
deliverBoth(s, node) ==
  LET s1 == [resolveProps(s, node) EXCEPT !.nodes[node].available = TRUE] IN
  [s1 EXCEPT !.nodes[node].handed = @ + 1,
             !.nodes[node].hands = @ \cup {[resolved |-> s.nodes[node].onProps,
                                            available |-> s1.nodes[node].available]}]

deliverProps(s, node) ==
  LET s1 == handProps([s EXCEPT !.nodes[node].handed = @ + 1], node) IN
  [s1 EXCEPT !.nodes[node].hands = @ \cup {[resolved |-> s.nodes[node].onProps,
                                            available |-> s1.nodes[node].available]}]

\* return [pending, result]
Pair(s, pending, result) == [s EXCEPT !.pend = pending, !.ret = result]

\* What the call number k of the callable produces: the child, or the error
\* the body raises.
Returned(n, k) ==
  IF Behav(n.tag).throwAt = k THEN [Val0 EXCEPT !.err = "E_body"]
  ELSE [Val0 EXCEPT !.child = Output(n.tag, n.props)]

\* isPromiseLike(value), for what the call number k of the callable or of
\* iterator.next returned.
Promised(b, k) ==
  b.type \in {"afn", "agen"} \/ (b.asyncFrom # 0 /\ k >= b.asyncFrom)

\* Set.add(x), for a set kept in the order of insertion.
SetAdd(set, x) ==
  IF \E i \in 1..Len(set) : set[i] = x THEN set ELSE Append(set, x)

\* this.schedule(cb) and this.cleanup(cb), called by the body with a new
\* callback.
hooked(s, node) ==
  LET n == s.nodes[node] IN
  [s EXCEPT !.nodes[node].schedules = SetAdd(@, n.calls),
            !.nodes[node].cleanups = SetAdd(@, n.calls),
            !.nodes[node].regs = Append(@, [cb |-> n.calls, at |-> Len(n.commits)])]

\* ComponentNode.get: the search from the parent upwards.
RECURSIVE getFrom(_, _, _, _)
getFrom(s, parent, name, fuel) ==
  IF parent = 0 \/ fuel = 0 THEN 0
  ELSE IF s.nodes[parent].kind = "comp" /\ s.nodes[parent].provisions[name] # -1
  THEN s.nodes[parent].provisions[name]
  ELSE getFrom(s, s.nodes[parent].parent, name, fuel - 1)

\* A get that starts the search at the node itself.
getOwn(s, node, name) == getFrom(s, node, name, Len(s.nodes))

\* ComponentNode.get
ComponentNode_get(s, node, name) ==
  getFrom(s, s.nodes[node].parent, name, Len(s.nodes))

\* ComponentNode.set
ComponentNode_set(s, node, name, value) ==
  [s EXCEPT !.nodes[node].provisions[name] = value]

\* The body that sets its name, for props other than 0, and reads both names.
provided(s, node) ==
  LET n == s.nodes[node] IN
  Let(IF n.props.p = 0 THEN s
      ELSE ComponentNode_set(s, node, Behav(n.tag).sets, n.props.p), LAMBDA s1 :
    [s1 EXCEPT !.nodes[node].got = <<ComponentNode_get(s1, node, 1),
                                     ComponentNode_get(s1, node, 2)>>])

\* What the body of a component does besides its result, when it runs with
\* props other than 0: it registers callbacks, renders the root again, or
\* refreshes itself.
Body(s, node) ==
  LET n == s.nodes[node] IN
  IF Behav(n.tag).sets # 0 THEN provided(s, node)
  ELSE IF Behav(n.tag).hooks /\ n.props.p # 0 THEN hooked(s, node)
  ELSE IF n.props.p = 0 THEN s
  ELSE IF Behav(n.tag).reent = "render"
  THEN render(s, One(Elem(n.tag, 0, 0, NoChildren)))
  ELSE IF Behav(n.tag).reent = "refresh" THEN refresh(s, node)
  ELSE s

\* step, when the callable returned the child of value (SyncFn).
stepSyncFn(s, node, value) ==
  Let(updateChildren([s EXCEPT !.nodes[node].componentType = "SyncFn"], node,
                     value.child), LAMBDA s1 :
    IF s1.thrown # "" THEN s1
    ELSE Pair([s1 EXCEPT !.nodes[node].stepping = FALSE], 0, s1.ret))

\* step, when the callable returned the promise value1 (AsyncFn).
stepAsyncFn(s, node, value1) ==
  Let(Then([s EXCEPT !.nodes[node].componentType = "AsyncFn"], value1,
           [React0 EXCEPT !.k = "fnPending", !.n = node]), LAMBDA s1 :
  Let(Then(s1, value1, [React0 EXCEPT !.k = "fnResult", !.n = node]), LAMBDA s2 :
    Pair([s2 EXCEPT !.nodes[node].stepping = FALSE], s1.ret, s2.ret)))

\* step, when iterator.next returned the promise s.ret (AsyncGen).
stepAsyncGen(s, node) ==
  Let(Then([s EXCEPT !.nodes[node].stepping = FALSE,
                     !.nodes[node].componentType = "AsyncGen"], s.ret,
           [React0 EXCEPT !.k = "genCatch", !.n = node]), LAMBDA s0 :
  Let(Then(s0, s0.ret, [React0 EXCEPT !.k = "genPending", !.n = node]), LAMBDA s1 :
  Let(Then(s1, s0.ret, [React0 EXCEPT !.k = "genResult", !.n = node]), LAMBDA s2 :
    Pair(s2, s1.ret, s2.ret))))

\* The value a node commits when the child of an iteration is in place:
\* a string, or a component that renders the string of its props.
Shown(child) ==
  IF child.items = <<>> THEN <<>>
  ELSE IF child.items[1].t = "str" THEN <<Str(child.items[1].x)>>
  ELSE <<Str(<<child.items[1].p>>)>>

\* step, when iterator.next returned the iteration (SyncGen).
stepSyncGen(s, node, iteration) ==
  Let(updateChildren([s EXCEPT !.nodes[node].stepping = FALSE,
                               !.nodes[node].yields = Append(@, Shown(iteration.child)),
                               !.nodes[node].iterating = FALSE,
                               !.nodes[node].componentType = "SyncGen",
                               !.nodes[node].finished = @ \/ iteration.done],
                     node, iteration.child), LAMBDA s1 :
    IF s1.thrown # "" THEN s1 ELSE Pair(s1, s1.ret, s1.ret))

\* step, after parent.catch(err) for an error of the callable (both = FALSE)
\* or of iterator.next (both = TRUE).
stepCaught(s, both) ==
  IF s.thrown # "" THEN s ELSE Pair(s, IF both THEN s.ret ELSE 0, s.ret)

\* Context[Symbol.asyncIterator]: the body of an async generator that goes
\* on to a yield asks for the props first, for await (props of this).  It
\* takes the props that are available, or waits for the next ones; s.ret is
\* the promise of the iterator.next call.
nextProps(s, node, iteration) ==
  IF iteration.done \/ iteration.err # "" THEN s
  ELSE IF s.nodes[node].available
  THEN [s EXCEPT !.nodes[node].iterating = TRUE, !.nodes[node].available = FALSE,
                 !.nodes[node].took = Append(@, s.nodes[node].handed)]
  ELSE [s EXCEPT !.nodes[node].iterating = TRUE, !.nodes[node].onProps = TRUE,
                 !.proms[s.ret].wait = TRUE]

\* Context[Symbol.iterator] and Context[Symbol.asyncIterator], at a request
\* for props: the error the request raises ("": none).
Refusal(n, kind) ==
  IF n.iterating THEN "E_iterating"
  ELSE IF kind = "sync" /\ n.componentType = "AsyncGen" THEN "E_forawait"
  ELSE IF kind = "async" /\ n.componentType = "SyncGen" THEN "E_forof"
  ELSE ""

\* The body of an async generator has ended with the error of a request.
Ended(n) == Behav(n.tag).asks = "sync" /\ n.refused > 0

\* The request for props of a body that asks against the protocol of its
\* kind: it is refused, or iterating is set and the props are handed over
\* (the async iterator takes the available props or waits for the next).
\* A body that has ended asks no more.
askProps(s, node) ==
  LET n == s.nodes[node]
      kind == Behav(n.tag).asks
  IN IF Ended(n) THEN s
     ELSE IF Refusal(n, kind) # ""
     THEN [s EXCEPT !.nodes[node].asked = @ + 1, !.nodes[node].refused = @ + 1]
     ELSE [s EXCEPT !.nodes[node].asked = @ + 1,
                    !.nodes[node].iterating = TRUE,
                    !.nodes[node].available = IF kind = "async" THEN FALSE ELSE @,
                    !.nodes[node].onProps = IF kind = "async" /\ ~n.available
                                            THEN TRUE ELSE @]

\* What the call of iterator.next produces when the body asks against the
\* protocol: an async generator ends with the error of its request, a sync
\* generator gets a promise from its request and goes on.
askedIteration(n, k) ==
  IF Ended(n) THEN [Val0 EXCEPT !.done = TRUE]
  ELSE IF Behav(n.tag).asks = "sync" /\ Refusal(n, "sync") # ""
  THEN [Val0 EXCEPT !.err = Refusal(n, "sync")]
  ELSE Iteration(n, k)

\* const oldValue = this.oldResult === undefined ? this.value
\*   : this.oldResult.then(() => this.value); this.oldResult = undefined
oldValue(s, node) ==
  LET n == s.nodes[node] IN
  IF n.oldResult = 0
  THEN [s EXCEPT !.nodes[node].resumed =
                    Append(@, [direct |-> TRUE, settled |-> TRUE, value |-> n.value,
                               at |-> Len(n.commits), from |-> Len(n.commits)])]
  ELSE [Then(s, n.oldResult, [React0 EXCEPT !.k = "oldValue", !.n = node,
                                            !.a = Len(n.resumed) + 1])
          EXCEPT !.nodes[node].oldResult = 0,
                 !.nodes[node].resumed =
                    Append(@, [direct |-> FALSE, settled |-> FALSE, value |-> <<>>,
                               at |-> 0, from |-> Len(n.commits)])]

\* if (isPromiseLike(result)) this.oldResult = result.catch(() => undefined)
oldKept(s, node) ==
  IF s.thrown # "" \/ s.ret = 0 THEN s
  ELSE Let(Then(s, s.ret, [React0 EXCEPT !.k = "oldCatch", !.n = node]), LAMBDA s1 :
         [s1 EXCEPT !.nodes[node].oldResult = s1.ret, !.ret = s.ret])

\* step, from the call of iterator.next on.  s is the heap before the call.
stepNext(s, node) ==
  LET n == s.nodes[node]
      iteration == Iteration(n, n.nexts + 1)
      entered == [oldValue(s, node) EXCEPT !.nodes[node].iterator = TRUE,
                                           !.nodes[node].nexts = @ + 1]
  IN IF Behav(n.tag).asks = "sync"
     THEN stepAsyncGen(UserPromise(askProps(entered, node), "next", node,
                                   askedIteration(n, n.nexts + 1)), node)
     ELSE IF Behav(n.tag).asks = "async"
     THEN stepSyncGen(askProps(entered, node), node, iteration)
     ELSE IF Behav(n.tag).type = "agen"
     THEN stepAsyncGen(nextProps(UserPromise(entered, "next", node, iteration),
                                 node, iteration), node)
     ELSE IF Promised(Behav(n.tag), n.nexts + 1)
     THEN stepAsyncGen(UserPromise(entered, "next", node, iteration), node)
     ELSE IF iteration.err # ""
     THEN stepCaught(raise(entered, node, iteration.err), TRUE)
     ELSE stepSyncGen(entered, node, iteration)

\* step, from the return of the callable on.  s is the heap when the body
\* has run, n the node and k the number of the call.
stepCalled(s, node, n, k) ==
  IF s.thrown # "" THEN s
  ELSE IF Behav(n.tag).type = "fn" /\ ~Promised(Behav(n.tag), k)
  THEN IF Returned(n, k).err # ""
       THEN stepCaught(raise(s, node, Returned(n, k).err), FALSE)
       ELSE stepSyncFn(s, node, Returned(n, k))
  ELSE IF Behav(n.tag).type \in {"fn", "afn"}
  THEN Let(UserPromise(s, "call", node, Returned(n, k)), LAMBDA s1 :
         stepAsyncFn(s1, node, s1.ret))
  ELSE stepNext(s, node)

\* step, at its return: the pending of the pair is the driving promise.
stepDriven(s, node) ==
  IF s.thrown # "" THEN s ELSE [s EXCEPT !.nodes[node].driving = s.pend]

\* A step that does not test the finished flag.
stepFinished(s, node) ==
  LET n == s.nodes[node] IN
  IF s.thrown # "" THEN s
  ELSE IF n.iterator
  THEN stepDriven(stepNext([s EXCEPT !.nodes[node].stepping = TRUE], node), node)
  ELSE stepDriven(stepCalled(Body([s EXCEPT !.nodes[node].stepping = TRUE,
                                            !.nodes[node].calls = @ + 1], node),
                             node, n, n.calls + 1), node)

\* ComponentNode.step: ret is the result, pend the pending of the pair.
\* reentered records that user code was entered while stepping was set.
ComponentNode_step(s, node) ==
  LET n == s.nodes[node]
      race == n.driving # 0 /\ s.proms[n.driving].st = "pending"
  IN
  IF s.thrown # "" THEN s
  ELSE IF n.finished THEN Pair(s, 0, 0)
  ELSE IF n.iterator
  THEN stepDriven(stepNext([s EXCEPT !.nodes[node].stepping = TRUE,
                                     !.nodes[node].racing = @ \/ race,
                                     !.nodes[node].reentered = @ \/ n.stepping],
                           node), node)
  ELSE stepDriven(stepCalled(Body([s EXCEPT !.nodes[node].stepping = TRUE,
                                            !.nodes[node].calls = @ + 1,
                                            !.nodes[node].racing = @ \/ race,
                                            !.nodes[node].reentered = @ \/ n.stepping],
                                  node),
                             node, n, n.calls + 1), node)

\* run, after step: the pending of the pair drives the scheduler.
stepped(s, node) ==
  IF s.thrown # "" THEN s
  ELSE IF s.pend = 0 THEN [s EXCEPT !.nodes[node].inflightResult = s.ret]
  ELSE Let(Then(s, s.pend, [React0 EXCEPT !.k = "finAdvance", !.n = node]), LAMBDA s1 :
         [s1 EXCEPT !.nodes[node].inflightPending = s1.ret,
                    !.nodes[node].inflightResult = s.ret,
                    !.ret = s.ret])

\* run, when a step is in flight and none is enqueued.
enqueue(s, node) ==
  Let(NewPromise(s), LAMBDA s1 :
  Let(Then(s1, s.nodes[node].inflightPending,
           [React0 EXCEPT !.k = "enqStep", !.n = node, !.a = s1.ret]), LAMBDA s2 :
  Let(Then(s2, s2.ret, [React0 EXCEPT !.k = "finAdvance", !.n = node]), LAMBDA s3 :
    [s3 EXCEPT !.nodes[node].enqueuedPending = s3.ret,
               !.nodes[node].enqueuedResult = s1.ret,
               !.ret = s1.ret])))

\* run, at its return: ret is what it returns.
ran(s, node) ==
  IF s.thrown # "" THEN s
  ELSE [s EXCEPT !.nodes[node].returned = s.ret,
                 !.nodes[node].outs = IF s.ret = 0 THEN @ ELSE Append(@, s.ret)]

\* A run that queues a step for every kind of component.
runQueued(s, node) ==
  LET s0 == [s EXCEPT !.nodes[node].runs = @ + 1] IN
  IF s.thrown # "" THEN s
  ELSE IF s.nodes[node].inflightPending = 0
  THEN ran(stepped(step(s0, node), node), node)
  ELSE IF s.nodes[node].enqueuedPending = 0 THEN ran(enqueue(s0, node), node)
  ELSE ran([s0 EXCEPT !.ret = s.nodes[node].enqueuedResult], node)

\* ComponentNode.run
ComponentNode_run(s, node) ==
  LET n == s.nodes[node]
      s0 == [s EXCEPT !.nodes[node].runs = @ + 1]
  IN
  IF s.thrown # "" THEN s
  ELSE IF n.inflightPending = 0 THEN ran(stepped(step(s0, node), node), node)
  ELSE IF n.componentType = "AsyncGen" THEN ran([s0 EXCEPT !.ret = n.inflightResult], node)
  ELSE IF n.enqueuedPending = 0 THEN ran(enqueue(s0, node), node)
  ELSE ran([s0 EXCEPT !.ret = n.enqueuedResult], node)

\* advance, after run() for an async generator: this.run().catch(...)
advanced(s, node) ==
  IF s.thrown # "" \/ s.ret = 0 THEN s
  ELSE Then(s, s.ret, [React0 EXCEPT !.k = "advCatch", !.n = node])

\* An advance that leaves the enqueued pair in place.
ComponentNode_advanceKeeps(s, node) ==
  LET n == s.nodes[node]
      s1 == [s EXCEPT !.nodes[node].inflightPending = n.enqueuedPending,
                      !.nodes[node].inflightResult = n.enqueuedResult,
                      !.nodes[node].advances = @ + 1]
  IN IF n.componentType = "AsyncGen" /\ ~n.finished
     THEN advanced(run(s1, node), node)
     ELSE s1

\* ComponentNode.advance
ComponentNode_advance(s, node) ==
  LET n == s.nodes[node]
      s1 == [s EXCEPT !.nodes[node].inflightPending = n.enqueuedPending,
                      !.nodes[node].inflightResult = n.enqueuedResult,
                      !.nodes[node].enqueuedPending = 0,
                      !.nodes[node].enqueuedResult = 0,
                      !.nodes[node].advances = @ + 1]
  IN IF n.componentType = "AsyncGen" /\ ~n.finished
     THEN advanced(run(s1, node), node)
     ELSE s1

\* refresh, after run()
refreshed(s, node) ==
  IF s.thrown # "" THEN s
  ELSE IF s.ret = 0
  THEN Let(commit(s, node), LAMBDA s1 :
         IF s1.thrown # "" THEN s1 ELSE [s1 EXCEPT !.ret = 0])
  ELSE [Then(s, s.ret, [React0 EXCEPT !.k = "refreshCommit", !.n = node])
          EXCEPT !.nodes[node].outs = Append(@, Len(s.proms) + 1)]

\* ComponentNode.refresh
ComponentNode_refresh(s, node) ==
  IF s.thrown # "" THEN s
  ELSE IF s.nodes[node].stepping \/ s.nodes[node].unmounted THEN [s EXCEPT !.ret = 0]
  ELSE refreshed(run(deliverProps(s, node), node), node)

\* ParentNode.update
ParentNode_update(s, node, props, ref) ==
  IF s.thrown # "" THEN s
  ELSE updateChildren([s EXCEPT !.nodes[node].props = props,
                                !.nodes[node].ref = ref,
                                !.nodes[node].updating = TRUE],
                      node, props.children)

\* ComponentNode.update
ComponentNode_update(s, node, props, ref) ==
  IF s.thrown # "" THEN s
  ELSE run(deliverProps([s EXCEPT !.nodes[node].props = props,
                                  !.nodes[node].ref = ref,
                                  !.nodes[node].updating = TRUE], node), node)

\* ----------------------------------------------------------------- render
\* render, after rootNode.update(portal.props): the root commits now, or
\* when the result settles.
rendered(s, rootNode) ==
  IF s.thrown # "" THEN s
  ELSE IF s.ret # 0
  THEN [Then(s, s.ret, [React0 EXCEPT !.k = "renderThen", !.n = rootNode])
          EXCEPT !.nodes[rootNode].outs = Append(@, Len(s.proms) + 1)]
  ELSE Let(commit(s, rootNode), LAMBDA s1 :
         IF s1.thrown # "" THEN s1 ELSE [s1 EXCEPT !.ret = 0])

\* render, from the lookup of the root in the cache on; child is the one
\* child of the portal.
renderRoot(s, child) ==
  LET isNull == child.items = <<>> \/ child.items[1].t = "nul"
      new == Len(s.nodes) + 1
  IN IF s.cache = 0
     THEN rendered(update([s EXCEPT !.nodes = Append(@, [Node0 EXCEPT !.kind = "host",
                                                                      !.tag = Portal,
                                                                      !.moved = TRUE]),
                                    !.cache = IF isNull THEN 0 ELSE new],
                          new, [p |-> 0, children |-> child], 0), new)
     ELSE rendered(update([s EXCEPT !.cache = IF isNull THEN 0 ELSE @],
                          s.cache, [p |-> 0, children |-> child], 0), s.cache)

\* Renderer.render(children, root) for the one root object of the model.
\* ret is the promise render returns (0 when it returns the value).
Renderer_render(s, children) ==
  IF s.thrown # "" THEN s
  ELSE renderRoot(s, IF children.iter THEN One(Elem(Fragment, 0, 0, children))
                     ELSE children)

\* ------------------------------------------------------------ promise jobs
\* What a then-callback leaves in its derived promise: a rejection when it
\* raised, the resolution with what it returned otherwise.
Finish(s, tgt) ==
  IF s.thrown # ""
  THEN Settle([s EXCEPT !.thrown = ""], tgt, FALSE, [Val0 EXCEPT !.err = s.thrown])
  ELSE Resolve(s, tgt, s.ret)

\* The same for a callback that returns the value val.
FinishWith(s, tgt, val) ==
  IF s.thrown # "" THEN Finish(s, tgt) ELSE Settle(s, tgt, TRUE, val)

\* for (node = newNode.alternate; node; node = node.alternate) node.unmount()
RECURSIVE unmountAlternates(_, _, _)
unmountAlternates(s, node, fuel) ==
  IF node = 0 \/ fuel = 0 \/ s.thrown # "" THEN s
  ELSE unmountAlternates(IF Internal(s, node) THEN unmount(s, node, TRUE) ELSE s,
                         s.nodes[node].alternate, fuel - 1)

\* The callback of updateChildren that unmounts the alternates of newNode.
dropAlternates(s, newNode) ==
  Let(unmountAlternates(s, s.nodes[newNode].alternate, Len(s.nodes)), LAMBDA s1 :
    IF s1.thrown # "" THEN s1
    ELSE [s1 EXCEPT !.nodes[newNode].alternate = 0, !.ret = 0])

\* A callback of run's inflightPending.then that leaves out resolve(result).
enqueuedStepSilent(s, resolve, tgt) ==
  IF s.thrown # "" THEN Finish(s, tgt) ELSE Resolve(s, tgt, s.pend)

\* The callback of run's inflightPending.then: step, resolve(result), and
\* the pending is returned.
enqueuedStep(s, resolve, tgt) ==
  IF s.thrown # "" THEN Finish(s, tgt)
  ELSE Resolve(Resolve(s, resolve, s.ret), tgt, s.pend)

\* The callback of step's iteration.catch, after parent.catch(err).
genCaught(s, tgt) ==
  IF s.thrown # "" THEN Finish(s, tgt)
  ELSE IF s.ret = 0 THEN Settle(s, tgt, TRUE, [Val0 EXCEPT !.done = TRUE])
  ELSE Let(Then(s, s.ret, [React0 EXCEPT !.k = "constDone"]), LAMBDA s1 :
         Resolve(s1, tgt, s1.ret))

\* The callback of the reaction r, run with the settlement (ok, val) of the
\* promise it was registered on; the derived promise r.tgt settles with it.
Callback(s, r, ok, val) ==
  LET node == r.n
      pass == Settle(s, r.tgt, ok, val)
  IN
  CASE r.k = "adopt" -> pass
    \* result.then(() => result1)
    [] r.k = "agg" -> IF ok THEN Resolve(s, r.tgt, r.a) ELSE pass
    \* result1.then(() => this.commit()), refresh's then(() => this.commit())
    [] r.k = "commit" ->
         IF ok THEN Finish(commit(chained(s, node, r.a), node), r.tgt) ELSE pass
    [] r.k = "refreshCommit" ->
         IF ok THEN Finish(commit(s, node), r.tgt) ELSE pass
    \* the callback of updateChildren that unmounts the alternates
    [] r.k = "alt" -> IF ok THEN Finish(dropAlternates(s, node), r.tgt) ELSE pass
    \* pending.finally(() => this.advance())
    [] r.k = "finAdvance" ->
         IF ok THEN FinishWith(ComponentNode_advance(s, node), r.tgt, val)
         ELSE Let(ComponentNode_advance(s, node), LAMBDA s1 :
                IF s1.thrown # "" THEN Finish(s1, r.tgt)
                ELSE Settle(s1, r.tgt, FALSE, val))
    \* inflightPending.then(() => { step(); resolve(result); return pending })
    [] r.k = "enqStep" -> IF ok THEN enqueuedStep(step(s, node), r.a, r.tgt) ELSE pass
    \* value.then(() => undefined, () => undefined), and of the iteration
    [] r.k \in {"fnPending", "genPending"} -> Settle(s, r.tgt, TRUE, Val0)
    \* value.then((child) => this.updateChildren(child), (err) => parent.catch(err))
    [] r.k = "fnResult" ->
         IF ok THEN Finish(updateChildren(s, node, val.child), r.tgt)
         ELSE Finish(raise(s, node, val.err), r.tgt)
    \* iteration.catch((err) => { const caught = parent.catch(err); ... })
    [] r.k = "genCatch" ->
         IF ok THEN pass ELSE genCaught(raise(s, node, val.err), r.tgt)
    \* caught.then(() => ({value: undefined, done: true}))
    [] r.k = "constDone" ->
         IF ok THEN Settle(s, r.tgt, TRUE, [Val0 EXCEPT !.done = TRUE]) ELSE pass
    \* iteration.then((iteration) => { ...; return this.updateChildren(value) }),
    \* and the same callback of catch for the iteration of iterator.throw
    [] r.k = "genResult" ->
         IF ok
         THEN Finish(oldKept(updateChildren(
                               [s EXCEPT !.nodes[node].finished = @ \/ val.done,
                                         !.nodes[node].yields =
                                            Append(@, Shown(val.child)),
                                         !.nodes[node].iterating = FALSE],
                               node, val.child), node), r.tgt)
         ELSE pass
    [] r.k = "throwThen" ->
         IF ok
         THEN Finish(updateChildren(
                       [s EXCEPT !.nodes[node].finished = @ \/ val.done],
                       node, val.child), r.tgt)
         ELSE Finish(raise(s, node, val.err), r.tgt)
    \* result.catch(() => undefined)
    [] r.k = "oldCatch" -> Settle(s, r.tgt, TRUE, Val0)
    \* this.oldResult.then(() => this.value)
    [] r.k = "oldValue" ->
         IF ok
         THEN [Settle(s, r.tgt, TRUE, Val0)
                 EXCEPT !.nodes[node].resumed[r.a] =
                           [@ EXCEPT !.settled = TRUE, !.value = s.nodes[node].value,
                                     !.at = Len(s.nodes[node].commits)]]
         ELSE pass
    \* unmount's iteration.then(() => void unmountChildren(dirty), (err) => ...)
    [] r.k = "unmountThen" ->
         IF ok THEN Finish(unmountChildren(s, node, r.d), r.tgt)
         ELSE Finish(raise(s, node, val.err), r.tgt)
    \* render's result.then(() => { rootNode.commit(); return rootNode.value })
    [] r.k = "renderThen" ->
         IF ok THEN FinishWith(commit(s, node), r.tgt, Val0) ELSE pass
    \* advance's catch((err) => { if (!this.updating) throw err })
    [] r.k = "advCatch" ->
         IF ok \/ ~s.nodes[node].updating THEN pass
         ELSE Settle(s, r.tgt, TRUE, Val0)
    [] OTHER -> s

\* ------------------------------------------------------------- dispatch
\* The call of method m on the node this: the method of the node's class.
\* A promise job is the call of its callback.
Call(s, m, this, arg) ==
  LET kind == IF this = 0 THEN "" ELSE s.nodes[this].kind IN
  CASE m = "updateChildren" ->
         IF kind = "comp" THEN ComponentNode_updateChildren(s, this, arg)
         ELSE ParentNode_updateChildren(s, this, arg)
    [] m = "update" ->
         IF kind = "comp" THEN ComponentNode_update(s, this, arg.props, arg.ref)
         ELSE ParentNode_update(s, this, arg.props, arg.ref)
    [] m = "commit" ->
         IF kind = "comp" THEN ComponentNode_commit(s, this)
         ELSE IF kind = "host" THEN HostNode_commit(s, this)
         ELSE FragmentNode_commit(s, this)
    [] m = "unmount" ->
         IF kind = "comp" THEN ComponentNode_unmount(s, this, arg)
         ELSE IF kind = "host" THEN HostNode_unmount(s, this, arg)
         ELSE FragmentNode_unmount(s, this, arg)
    [] m = "catch" ->
         IF kind = "comp" THEN ComponentNode_catch(s, this, arg)
         ELSE ParentNode_catch(s, this, arg)
    [] m = "run" -> ComponentNode_run(s, this)
    [] m = "step" -> ComponentNode_step(s, this)
    [] m = "refresh" -> ComponentNode_refresh(s, this)
    [] m = "render" -> Renderer_render(s, arg)
    [] m = "callback" -> Callback(s, arg.r, arg.ok, arg.val)

\* The first job of the queue runs.
RunJobs(s) == Call([s EXCEPT !.jobs = Tail(@)], "callback", 0, Head(s.jobs))

\* ------------------------------------------------------------------ state
\* nodes, proms, jobs and cache are the heap between two handlers.  raised
\* lists the errors render or refresh raised to their caller.  made counts
\* the calls of render and refresh.  last records the step taken last: its
\* kind (op), the children rendered (children) and those of the render
\* before (before), the node or promise it was about (n), and the nodes as
\* they were before it (pre).
VARIABLES nodes, proms, jobs, cache, raised, made, last, log
vars == <<nodes, proms, jobs, cache, raised, made, last, log>>

Cur == [Heap0 EXCEPT !.nodes = nodes, !.proms = proms, !.jobs = jobs, !.cache = cache]

Put(s) ==
  /\ nodes' = s.nodes
  /\ proms' = s.proms
  /\ jobs' = s.jobs
  /\ cache' = s.cache
  /\ raised' = IF s.thrown = "" THEN raised ELSE Append(raised, s.thrown)
  /\ log' = s.log

Last0 == [op |-> "init", children |-> NoChildren, before |-> NoChildren, n |-> 0,
          pre |-> <<>>, prev |-> "init"]

Init ==
  /\ nodes = <<>>
  /\ proms = <<>>
  /\ jobs = <<>>
  /\ cache = 0
  /\ raised = <<>>
  /\ log = <<>>
  /\ made = [render |-> 0, refresh |-> 0, overlap |-> FALSE]
  /\ last = Last0

\* The promises user code handed out and has not settled.
Pending(p) == proms[p].user # "" /\ proms[p].st = "pending"

\* renderer.render(children, root).  made counts the
\* calls; overlap tells that a render was called while a promise of an
\* earlier step was unsettled.
Render(children) ==
  /\ made.render < MaxRenders
  /\ Put(render(Cur, children))
  /\ made' = [made EXCEPT !.render = @ + 1,
                          !.overlap = @ \/ \E p \in 1..Len(proms) : Pending(p)]
  /\ last' = [Last0 EXCEPT !.op = "render", !.children = children,
                           !.before = last.children, !.pre = nodes,
                           !.prev = last.op]

\* ctx.refresh() of the component node, between two runs of the promise
\* jobs.
Refresh(node) ==
  /\ made.refresh < MaxRefreshes
  /\ jobs = <<>>
  /\ nodes[node].kind = "comp"
  /\ Put(refresh(Cur, node))
  /\ made' = [made EXCEPT !.refresh = @ + 1]
  /\ last' = [last EXCEPT !.op = "refresh", !.n = node, !.pre = nodes]

\* An async iterator settles the promises of its next, return and throw
\* calls in the order of the calls; a next call that waits for props settles
\* after the props were handed over.
Settleable(p) ==
  /\ Pending(p)
  /\ ~proms[p].wait
  /\ proms[p].user = "call" \/
       \A q \in 1..(p - 1) : ~(Pending(q) /\ proms[q].n = proms[p].n
                                /\ proms[q].user # "call")

\* The environment settles a promise of user code, once the promise jobs
\* of the handler before have run.
SettleUser(p) ==
  /\ jobs = <<>>
  /\ Settleable(p)
  /\ Put(Settle(Cur, p, proms[p].pl.err = "", proms[p].pl))
  /\ UNCHANGED made
  /\ last' = [last EXCEPT !.op = "settle", !.n = p, !.pre = nodes]

\* The next promise job runs.
RunJob ==
  /\ jobs # <<>>
  /\ Put(RunJobs(Cur))
  /\ UNCHANGED made
  /\ last' = [last EXCEPT !.op = "job", !.n = Head(jobs).r.n, !.pre = nodes]

\* ------------------------------------------------- the list specification
\* One parent's child list is diffed against lists of keyed and unkeyed
\* host elements and text.
Seqs(S, n) == UNION {[1..k -> S] : k \in 0..n}

ListPool ==
  {Elem("a", k, 0, NoChildren) : k \in 0..NumKeys}
    \cup {Elem("b", 1, 0, NoChildren), Text(<<7>>)}

RenderList == \E cs \in Seqs(ListPool, MaxLen) : Render(Many(cs))

NextList == RenderList

SpecList == Init /\ [][NextList]_vars

\* ----------------------------------------------------------------- claims
\* The heap with the nodes as they were before the last step.
Pre == [Cur EXCEPT !.nodes = last.pre]

\* The node under the root whose child list the passes diff.
Parent == nodes[cache].firstChild

\* Both the last step and the one before were passes over the same parent.
TwoPasses ==
  /\ last.op = "render"
  /\ last.pre # <<>>
  /\ cache # 0
  /\ Parent # 0
  /\ last.pre[cache].firstChild = Parent

\* The first child with key k in the rendered children has the tag.
Occurs(children, k, tag) ==
  \E i \in 1..Len(children.items) :
    /\ children.items[i].t = "el"
    /\ children.items[i].key = k
    /\ children.items[i].tag = tag
    /\ \A j \in 1..(i - 1) : children.items[j].key # k

\* The position of node in the sequence list (0: not in it).
IndexOf(list, node) ==
  IF \E i \in 1..Len(list) : list[i] = node
  THEN CHOOSE i \in 1..Len(list) : list[i] = node
  ELSE 0

\* The node the parent holds for key k in the nodes ns (0: none).
Holder(ns, k) ==
  LET m == ns[Parent].keyedChildren IN
  IF \E i \in 1..Len(m) : m[i].k = k
  THEN m[CHOOSE i \in 1..Len(m) : m[i].k = k].v
  ELSE 0

\* The keyed child k was in both passes with the tag.
Kept(k, tag) ==
  TwoPasses /\ Occurs(last.before, k, tag) /\ Occurs(last.children, k, tag)

\* C1 (keyed stability): a keyed child whose key and tag are present in two
\* consecutive passes over a parent is held by the same node after the
\* second pass as after the first; the node is still in the child list and
\* is not unmounted.
C1_KeyedStability ==
  \A k \in Keys : \A tag \in {"a", "b"} :
    Kept(k, tag) =>
      LET old == Holder(last.pre, k) IN
      /\ old # 0
      /\ Holder(nodes, k) = old
      /\ nodes[old].key = k
      /\ nodes[old].tag = tag
      /\ ~nodes[old].unmounted
      /\ IndexOf(ChildList(Cur, Parent), old) # 0

\* A keyed child kept over two passes at a different position of the list.
C1_Witness ==
  \E k \in Keys :
    /\ Kept(k, "a")
    /\ LET old == Holder(last.pre, k) IN
       /\ old # 0
       /\ IndexOf(ChildList(Cur, Parent), old) # 0
       /\ IndexOf(ChildList(Cur, Parent), old) # IndexOf(ChildList(Pre, Parent), old)

\* The children with every later occurrence of a key made unkeyed.
Demoted(items) ==
  SubSeq([i \in 1..Len(items) |->
            IF items[i].key # 0 /\ \E j \in 1..(i - 1) : items[j].key = items[i].key
            THEN [items[i] EXCEPT !.key = 0]
            ELSE items[i]], 1, Len(items))

\* The heap before the last step.
Before == [Heap0 EXCEPT !.nodes = last.pre,
                        !.cache = IF last.pre = <<>> THEN 0 ELSE cache]

\* The nodes without the props they were given.
Shape(ns) == SubSeq([n \in 1..Len(ns) |-> [ns[n] EXCEPT !.props = NoProps]], 1, Len(ns))

\* C13 (key collision): a pass over children that repeat a key leaves the
\* nodes that the same pass leaves with the later occurrences unkeyed (but
\* for the props, which hold the children as given), and raises no error.
C13_Collision ==
  last.op = "render" =>
    /\ raised = <<>>
    /\ Shape(nodes) = Shape(render(Before, Many(Demoted(last.children.items))).nodes)

\* C20 (key uniqueness): in the child list of every node no two nodes carry
\* the same defined key, and the keyed map of the node holds exactly the
\* keyed nodes of the list, each under its key.
C20_KeyUnique ==
  \A par \in 1..Len(nodes) :
    LET list == ChildList(Cur, par) IN
    /\ \A i \in 1..Len(list) : \A j \in 1..Len(list) :
         (i # j /\ nodes[list[i]].key # 0) => nodes[list[i]].key # nodes[list[j]].key
    /\ {<<nodes[par].keyedChildren[e].k, nodes[par].keyedChildren[e].v>> :
           e \in 1..Len(nodes[par].keyedChildren)}
         = {<<nodes[list[i]].key, list[i]>> :
              i \in {x \in 1..Len(list) : nodes[list[x]].key # 0}}

\* ------------------------------------------------ the async specification
\* The root renders one component at a time, with props that number the
\* calls of render; the components are async, or sync with async children.
AsyncTags == {"AFn", "FnA", "GenA", "AGen", "GenT"}

\* The tag of the element rendered last ("" before the first render).
LastTag == IF last.children.items = <<>> THEN "" ELSE last.children.items[1].tag

\* The calls of render and refresh together are bounded.
Budget == made.render + made.refresh < MaxCalls

RenderAsync ==
  /\ Budget
  /\ jobs = <<>>
  /\ \E tag \in AsyncTags :
       /\ LastTag \in {"", tag}
       /\ Render(One(Elem(tag, 0, made.render + 1, NoChildren)))

RefreshAny == Budget /\ \E node \in 1..Len(nodes) : Refresh(node)

SettleAny == \E p \in 1..Len(proms) : SettleUser(p)

NextAsync == RenderAsync \/ RefreshAny \/ SettleAny \/ RunJob

SpecAsync == Init /\ [][NextAsync]_vars

\* No promise job is left and user code has settled every promise.
Quiet == jobs = <<>> /\ \A p \in 1..Len(proms) : ~Pending(p)

\* The component node the root renders (0: none).
Comp == IF cache = 0 THEN 0 ELSE nodes[cache].firstChild

\* The value a component commits when its output for props p is in place.
Committed(p) == <<Str(<<p>>)>>

\* The number of commits in the log cs that committed the value v.
Count(cs, v) == Cardinality({j \in 1..Len(cs) : cs[j] = v})

\* Two overlapping updates of the component under the root, both settled,
\* and no promise rejected.
TwoOverlapped ==
  /\ made.render = 2 /\ made.refresh = 0 /\ made.overlap
  /\ Quiet
  /\ \A p \in 1..Len(proms) : proms[p].st # "rejected"
  /\ Comp # 0

\* C2 (last-settle-wins): after two overlapping asynchronous updates of a
\* component node, exactly one of its commits reflects the output of the
\* second update, and no commit of the first output follows a commit of the
\* second.
C2_LastSettleWins ==
  TwoOverlapped =>
    LET cs == nodes[Comp].commits IN
    /\ Count(cs, Committed(2)) = 1
    /\ \A j, k \in 1..Len(cs) :
         (j < k /\ cs[j] = Committed(2)) => cs[k] # Committed(1)

\* The number of steps of the component n: the entries into its callable
\* and into iterator.next.
Steps(n) == n.calls + n.nexts

\* The component node is not an async generator.
Coalesces(node) ==
  nodes[node].kind = "comp" /\ Behav(nodes[node].tag).type # "agen"

\* The last step of the model, a render or a refresh, made a run() request
\* to the node while a step of the node was in flight.
Requested(node) ==
  /\ last.op \in {"render", "refresh"}
  /\ node <= Len(last.pre)
  /\ last.pre[node].inflightPending # 0
  /\ nodes[node].runs > last.pre[node].runs

\* The promise p has been resolved, with a value or with another promise.
Resolved(p) == p # 0 /\ (proms[p].locked \/ proms[p].st # "pending")

\* C6 (in-flight coalescing): for a component that is not an async
\* generator, a run() request made while a step is in flight performs no
\* step and returns the one enqueued result, the same for every such
\* request; the queued step is entered once, from a promise job after the
\* driving promise of the inflight step has settled, and resolves that
\* result; when everything has settled no step is left queued and the
\* result the requests received has settled.
C6_Coalescing ==
  \A node \in 1..Len(nodes) :
    Coalesces(node) =>
      /\ ~nodes[node].racing
      /\ Requested(node) =>
           /\ Steps(nodes[node]) = Steps(last.pre[node])
           /\ nodes[node].enqueuedPending # 0
           /\ nodes[node].returned = nodes[node].enqueuedResult
           /\ last.pre[node].enqueuedResult \in {0, nodes[node].enqueuedResult}
      /\ (/\ node <= Len(last.pre)
          /\ last.pre[node].inflightPending # 0
          /\ Steps(nodes[node]) # Steps(last.pre[node])) =>
           /\ last.op = "job"
           /\ Steps(nodes[node]) = Steps(last.pre[node]) + 1
           /\ Resolved(last.pre[node].inflightResult)
      /\ Quiet =>
           /\ nodes[node].enqueuedPending = 0
           /\ nodes[node].inflightPending = 0
           /\ nodes[node].returned # 0 => proms[nodes[node].returned].st # "pending"

\* The component node is an async generator that stepped before the last
\* step of the model.
AsyncGenerator(node) ==
  /\ node <= Len(last.pre)
  /\ last.pre[node].componentType = "AsyncGen"

\* C7 (async generator requests): a run() request to an async generator
\* component with a step in flight makes no step and queues none, and
\* returns the result of the inflight step; the iterator is resumed only
\* from a promise job, by advance(), and never while the driving promise of
\* the step before is unsettled.
C7_AsyncGenRun ==
  \A node \in 1..Len(nodes) :
    AsyncGenerator(node) =>
      /\ nodes[node].enqueuedPending = 0 /\ nodes[node].enqueuedResult = 0
      /\ ~nodes[node].racing
      /\ Requested(node) =>
           /\ Steps(nodes[node]) = Steps(last.pre[node])
           /\ nodes[node].returned = last.pre[node].inflightResult
           /\ nodes[node].inflightResult = last.pre[node].inflightResult
           /\ nodes[node].inflightPending = last.pre[node].inflightPending
      /\ Steps(nodes[node]) # Steps(last.pre[node]) =>
           /\ last.op = "job"
           /\ Steps(nodes[node]) = Steps(last.pre[node]) + 1
           /\ last.pre[node].driving # 0
           /\ proms[last.pre[node].driving].st # "pending"

\* An update reaches an async generator whose step is in flight.
C7_Witness ==
  \E node \in 1..Len(nodes) :
    /\ AsyncGenerator(node)
    /\ Requested(node)
    /\ last.op = "render"
    /\ nodes[node].returned # 0
    /\ proms[nodes[node].driving].st = "pending"

\* ------------------------------------------------ the catch specification
\* The root renders, again and again, one tree of components that render
\* their children around a component or host element that raises an error:
\* a sync component, or an async component around a sync one.  The
\* components are refreshed in between.
Wrappers == {"FnW", "GenW", "GenN", "GenR", "GenF"}

AsyncWrappers == {"AFnW", "AGenW", "AGenN"}

Throwers == {"FnT", "FnU", "AFnT", "bad"}

Around(w, children) == One(Elem(w, 0, 1, children))

CatchTrees ==
  {Around(w, Around(x, NoChildren)) : w \in Wrappers, x \in Throwers}
    \cup {Around(w1, Around(w2, Around(x, NoChildren))) :
             w1 \in AsyncWrappers, w2 \in Wrappers \ {"GenW"}, x \in Throwers}

\* The calls of render and refresh together are bounded.
Tries == made.render + made.refresh < MaxTries

RenderCatch ==
  /\ Tries
  /\ jobs = <<>>
  /\ \E tree \in CatchTrees :
       /\ last.children \in {NoChildren, tree}
       /\ Render(tree)

RefreshCatch == Tries /\ \E node \in 1..Len(nodes) : Refresh(node)

NextCatch == RenderCatch \/ RefreshCatch \/ SettleAny \/ RunJob

SpecCatch == Init /\ [][NextCatch]_vars

\* The nearest component from node a upwards that has a live iterator (a
\* node of live) with a throw method (0: none).
RECURSIVE Nearest(_, _)
Nearest(a, live) ==
  IF a = 0 THEN 0
  ELSE IF nodes[a].kind = "comp" /\ a \in live /\ Behav(nodes[a].tag).onThrow # "none"
  THEN a
  ELSE Nearest(nodes[a].parent, live)

\* C8 (error routing): every error a component body or a host intrinsic
\* raises enters iterator.throw of the nearest strict ancestor component
\* that has a live, unfinished iterator with a throw method, and nothing
\* else in between; it is raised again at the parentless root exactly when
\* there is no such ancestor.
C8_ErrorRouting ==
  \A i \in 1..Len(log) :
    IF log[i].e = "raise"
    THEN /\ i < Len(log)
         /\ LET c == Nearest(nodes[log[i].n].parent, log[i].live) IN
            IF c = 0
            THEN log[i + 1].e = "top" /\ nodes[log[i + 1].n].parent = 0
            ELSE log[i + 1].e = "throw" /\ log[i + 1].n = c
    ELSE i > 1 /\ log[i - 1].e = "raise"

\* An error passes an ancestor without a live iterator exposing throw and
\* enters the throw entry point of the one above it.
C8_Witness ==
  \E i \in 1..Len(log) :
    /\ log[i].e = "throw"
    /\ nodes[log[i - 1].n].parent # log[i].n
    /\ nodes[nodes[log[i - 1].n].parent].kind = "comp"

\* ---------------------------------------------- the unmount specification
\* The root renders one component at a time, or null, which unmounts what
\* was rendered; render(null) may follow a render at once, before any
\* promise job has run.
UnmountTags == {"GenRet", "AGen", "AGenB", "AFn"}

RenderTag ==
  /\ jobs = <<>>
  /\ \E tag \in UnmountTags : Render(One(Elem(tag, 0, made.render + 1, NoChildren)))

RenderNull == Render(One(Null))

NextUnmount == RenderTag \/ RenderNull \/ SettleAny \/ RunJob

SpecUnmount == Init /\ [][NextUnmount]_vars

\* The iterator's return promise of the component node is unsettled.
Returning(node) ==
  \E p \in 1..Len(proms) :
    proms[p].user = "return" /\ proms[p].n = node /\ Pending(p)

\* The component node went from mounted to unmounted in the last step.
Unmounted(node) ==
  /\ node <= Len(last.pre)
  /\ ~last.pre[node].unmounted
  /\ nodes[node].unmounted

\* C4 (unmount drains generators): iterator.return is entered once when a
\* component with a live iterator is unmounted, never again after, and while
\* the promise it returned is unsettled no step unmounts a child of the
\* component.
C4_UnmountDrains ==
  \A node \in 1..Len(nodes) :
    /\ nodes[node].returns <= 1
    /\ (Unmounted(node) /\ last.pre[node].iterator /\ ~last.pre[node].finished)
         => nodes[node].returns = 1
    /\ (Returning(node) /\ node <= Len(last.pre)) =>
         \A c \in 1..Len(last.pre) :
           (IndexOf(ChildList(Pre, node), c) # 0 /\ ~last.pre[c].unmounted)
             => ~nodes[c].unmounted

\* render(null, root) was called right after the one render(X, root), and
\* all promises have settled.
RoundTrip ==
  /\ made.render = 2
  /\ last.prev = "render"
  /\ last.children = One(Null)
  /\ last.before # One(Null)
  /\ Quiet

\* C5 (round trip): after render(X, root) and at once render(null, root),
\* the cache holds no entry for the root, every component node is
\* unmounted, and the iterator of every generator component that had not
\* reported done was returned.
C5_RoundTrip ==
  RoundTrip =>
    /\ cache = 0
    /\ \A node \in 1..Len(nodes) :
         nodes[node].kind = "comp" =>
           /\ nodes[node].unmounted
           /\ (nodes[node].iterator /\ Behav(nodes[node].tag).doneAt = 0)
                => nodes[node].returns = 1

\* C29 (keyed and unkeyed alignment): a child without a key, or whose key
\* collided, is aligned with a node without a key or with a node created
\* for it; a node with a key that the alignment did not create is aligned
\* only with a child of that key.
C29_KeyedApart ==
  \A node \in 1..Len(nodes) :
    \A m \in nodes[node].matched :
      ~m.new => m.key = m.nkey

\* The first child of a pass has no key and the first node of the list has
\* one: the cursor skipped it, and an unkeyed child was aligned with an
\* unkeyed node of the list; a keyed child was aligned with the node of its
\* key.
C29_Witness ==
  /\ last.op = "render" /\ cache # 0 /\ Parent # 0 /\ Parent <= Len(last.pre)
  /\ last.children.items # <<>>
  /\ last.children.items[1].key = 0
  /\ LET list == ChildList(Pre, Parent) IN
     /\ list # <<>>
     /\ last.pre[list[1]].key # 0
     /\ \E m \in nodes[Parent].matched :
          ~m.new /\ m.key = 0 /\ IndexOf(list, m.n) # 0
     /\ \E m \in nodes[Parent].matched :
          ~m.new /\ m.key # 0 /\ IndexOf(list, m.n) # 0

\* C22 (recursive unmount): once a node is unmounted, the return of its
\* iterator has settled and no promise job is left, every parent node in its
\* child list is unmounted.
C22_UnmountRecursive ==
  \A node \in 1..Len(nodes) :
    (nodes[node].unmounted /\ ~Returning(node) /\ jobs = <<>>) =>
      \A i \in 1..Len(ChildList(Cur, node)) :
        LET c == ChildList(Cur, node)[i] IN
        nodes[c].kind # "leaf" => nodes[c].unmounted

\* ---------------------------------------------- the replace specification
\* The root renders one child at a time, a host element or a component, and
\* the tag changes from render to render.
ReplaceTags == {"b", "Fn", "AFn", "AGen", "AFnT"}

RenderReplace ==
  /\ jobs = <<>>
  /\ \E tag \in ReplaceTags : Render(One(Elem(tag, 0, made.render + 1, NoChildren)))

NextReplace == RenderReplace \/ SettleAny \/ RunJob

SpecReplace == Init /\ [][NextReplace]_vars

\* The values of the sequence vs are among the values of the sequence ws.
Within(vs, ws) == \A i \in 1..Len(vs) : \E j \in 1..Len(ws) : ws[j] = vs[i]

\* Node y replaced a node while its first update was pending, and that
\* update has not settled.
Replacing(y) == nodes[y].replaced # 0 /\ proms[nodes[y].first].st = "pending"

\* C3 (async replace safety): while the first update of the
\* replacement Y is pending, the replaced node X is not unmounted and its
\* value is among the parent's committed child values; once that update has
\* settled and its promise jobs have run, X is unmounted.
C3_AsyncReplaceAlways ==
  \A y \in 1..Len(nodes) :
    LET x == nodes[y].replaced IN
    /\ Replacing(y) =>
         /\ ~nodes[x].unmounted
         /\ jobs = <<>> => Within(nodes[x].value, nodes[nodes[y].parent].childValues)
    /\ (x # 0 /\ ~Replacing(y) /\ jobs = <<>>) => nodes[x].unmounted

\* Node y is linked in its parent's child list.
Linked(y) == IndexOf(ChildList(Cur, nodes[y].parent), y) # 0

\* The child list of the parent node is a consistent doubly linked list.
WellFormed(par) == WellFormedIn(Cur, par)

C30_SyncReplace ==
  \A y \in 1..Len(nodes) :
    nodes[y].displaced # 0 =>
      /\ nodes[y].gone
      /\ nodes[nodes[y].displaced].kind # "leaf" => nodes[nodes[y].displaced].unmounted
      /\ nodes[y].alternate = 0
      /\ nodes[y].replaced = 0

\* A component was replaced by a node whose first update returned no
\* promise, and the new node is in the list.
C30_Witness ==
  \E y \in 1..Len(nodes) :
    /\ nodes[y].displaced # 0
    /\ nodes[nodes[y].displaced].kind = "comp"
    /\ Linked(y)

\* C23 (alternate cleared): once the first update of a replacement node has
\* settled and the promise jobs have run, the replacement has no alternate
\* and the node it replaced is unmounted.
C23_AlternateCleared ==
  \A y \in 1..Len(nodes) :
    (nodes[y].replaced # 0 /\ proms[nodes[y].first].st # "pending" /\ jobs = <<>>) =>
      /\ nodes[y].alternate = 0
      /\ nodes[nodes[y].replaced].kind # "leaf" => nodes[nodes[y].replaced].unmounted

\* C24 (one alternate): the alternate of a node linked in a child list has
\* no alternate itself.
C24_OneAlternate ==
  \A y \in 1..Len(nodes) :
    (nodes[y].parent # 0 /\ Linked(y) /\ nodes[y].alternate # 0) =>
      nodes[nodes[y].alternate].alternate = 0

\* The last two steps rendered the same children.
SameTwice == last.op = "render" /\ last.prev = "render" /\ last.children = last.before

\* C11 (dirty minimality): after the same children were rendered twice, no
\* mounted node is dirty and no host node was committed with the dirty flag
\* set by the pass over its children.
C11_DirtyMinimal ==
  SameTwice =>
    \A node \in 1..Len(nodes) :
      ~nodes[node].unmounted =>
        ~nodes[node].dirty /\ ~nodes[node].dirtyChildren

\* C21 (trim): after a pass the child list holds no more nodes than the pass
\* had children; every node that was in the list before the pass and is not
\* in it any more is unmounted; and a pass over the same children as the
\* pass before leaves the list as long as it was.
C21_Trim ==
  (last.op = "render" /\ cache # 0 /\ Parent # 0) =>
    LET list == ChildList(Cur, Parent) IN
    /\ Len(list) <= Len(last.children.items)
    /\ Parent <= Len(last.pre) =>
         \A i \in 1..Len(ChildList(Pre, Parent)) :
           LET c == ChildList(Pre, Parent)[i] IN
           (IndexOf(list, c) = 0 /\ nodes[c].kind # "leaf") => nodes[c].unmounted
    /\ (SameTwice /\ Parent <= Len(last.pre)) =>
         Len(list) = Len(ChildList(Pre, Parent))

\* ------------------------------------------------- the copy specification
\* One parent's child list is diffed against lists of keyed and unkeyed
\* components, host elements with a text child, text and Copy elements.
\* The props of the components and the text of the host elements change
\* from render to render.
CopyPool(v) ==
  {Elem("Fn", k, v, NoChildren) : k \in 0..1}
    \cup {Elem(Copy, k, v, NoChildren) : k \in 0..1}
    \cup {Elem("a", 0, 0, One(Text(<<v>>))), Text(<<7>>)}

RenderCopy == \E cs \in Seqs(CopyPool(made.render + 1), MaxLen) : Render(Many(cs))

NextCopy == RenderCopy

SpecCopy == Init /\ [][NextCopy]_vars

\* The node is as it was before the last step in what rendering changes: the
\* entries into its user code, its props, its children, its commits and
\* its value.
Untouched(node) ==
  /\ node <= Len(last.pre)
  /\ LET n == nodes[node]
         o == last.pre[node]
     IN /\ n.calls = o.calls /\ n.nexts = o.nexts /\ n.runs = o.runs
        /\ n.props = o.props
        /\ n.updates = o.updates
        /\ n.entries = o.entries /\ n.commits = o.commits
        /\ n.value = o.value /\ n.childValues = o.childValues
        /\ n.unmounted = o.unmounted
        /\ ChildList(Cur, node) = ChildList(Pre, node)
        /\ \A c \in 1..Len(last.pre) :
             last.pre[c].parent = node => nodes[c].value = last.pre[c].value

\* C31 (Copy): after a pass, every node that the alignment gave to a Copy
\* child existed before the pass and is as it was before it: not stepped,
\* not updated, not committed, with the same children and value; and at
\* the turn of a Copy child that got no node the heap got no node either.
C31_Copy ==
  (last.op = "render" /\ cache # 0 /\ Parent # 0) =>
    /\ \A m \in nodes[Parent].matched : m.copy => (~m.new /\ Untouched(m.n))
    /\ \A c \in nodes[Parent].passed : ~c.grown

\* In one pass a Copy child was given a component that had rendered before
\* with other props and is in the list, and another Copy child got no node.
C31_Witness ==
  /\ last.op = "render" /\ cache # 0 /\ Parent # 0
  /\ \E m \in nodes[Parent].matched :
       /\ m.copy
       /\ nodes[m.n].kind = "comp" /\ nodes[m.n].calls > 0
       /\ nodes[m.n].props.p # made.render
       /\ IndexOf(ChildList(Cur, Parent), m.n) # 0
  /\ nodes[Parent].passed # {}

\* ----------------------------------------------- the portal specification
\* One parent's child list is diffed against lists of text, host elements
\* and portals with a text child; the root of a portal is an object or the
\* string 5.
PortalPool ==
  {Elem(Portal, 0, p, One(Text(<<8>>))) : p \in {0, 5}}
    \cup {Text(<<7>>), Elem("a", 0, 0, NoChildren)}

RenderPortal == \E cs \in Seqs(PortalPool, MaxLen) : Render(Many(cs))

NextPortal == RenderPortal

SpecPortal == Init /\ [][NextPortal]_vars

\* The child values the parent node committed last.
ChildValues(node) ==
  IF nodes[node].kind = "host" THEN nodes[node].childValues ELSE nodes[node].value

\* The value v is one of the values vs, or a string that is part of one of
\* the strings of vs.
Appears(v, vs) ==
  \E i \in 1..Len(vs) :
    IF v.s THEN vs[i].s /\ \E j \in 1..Len(vs[i].x) : vs[i].x[j] = v.x[1]
    ELSE vs[i] = v

\* C32 (Portal exclusion): after a render no value of a portal in a child
\* list appears in the child values its parent committed.
C32_PortalExcluded ==
  last.op = "render" =>
    \A x \in 1..Len(nodes) :
      (nodes[x].tag = Portal /\ nodes[x].parent # 0 /\ Linked(x)) =>
        \A i \in 1..Len(nodes[x].value) :
          ~Appears(nodes[x].value[i], ChildValues(nodes[x].parent))

\* C32 for the portals whose value is not a string.
C32_ObjectPortals ==
  last.op = "render" =>
    \A x \in 1..Len(nodes) :
      (nodes[x].tag = Portal /\ nodes[x].parent # 0 /\ Linked(x)
         /\ ~IsString(nodes[x].value)) =>
        \A i \in 1..Len(nodes[x].value) :
          ~Appears(nodes[x].value[i], ChildValues(nodes[x].parent))

\* ------------------------------------------------- the type specification
\* The root renders one component at a time: one of the four kinds, a
\* function that returns its children at the first call and a promise of
\* them from the second on, or a function that returns an iterator object
\* whose next returns an iteration first and promises of iterations after.
TypeTags == {"Fn", "AFn", "Gen", "AGen", "FnP", "ItP"}

RenderType ==
  /\ Tries
  /\ jobs = <<>>
  /\ \E tag \in TypeTags :
       /\ LastTag \in {"", tag}
       /\ Render(One(Elem(tag, 0, made.render + 1, NoChildren)))

NextType == RenderType \/ RefreshCatch \/ SettleAny \/ RunJob

SpecType == Init /\ [][NextType]_vars

\* C33 (execution model fixed): a component node that was classified
\* before the last step has the same classification after it.
C33_TypeFixed ==
  \A node \in 1..Len(last.pre) :
    (nodes[node].kind = "comp" /\ last.pre[node].componentType # "") =>
      nodes[node].componentType = last.pre[node].componentType

\* --------------------------------------------------- the value specification
\* The root renders a string and a component, sync or async, both numbered
\* by the call of render.
ValueTags == {"Fn", "AFn"}

RenderValue ==
  \E tag \in ValueTags :
    Render(Many(<<Text(<<made.render + 1>>),
                  Elem(tag, 0, made.render + 1, NoChildren)>>))

NextValue == RenderValue \/ SettleAny \/ RunJob

SpecValue == Init /\ [][NextValue]_vars

\* C34 (value set by commit only): the value of every node is the value that
\* the node's own latest completed commit stored, undefined before the
\* first.
C34_ValueCommitted ==
  \A node \in 1..Len(nodes) : nodes[node].value = nodes[node].committed

\* The same for the nodes that have a commit method: all but the leaves.
C34_InternalValue ==
  \A node \in 1..Len(nodes) :
    nodes[node].kind # "leaf" => nodes[node].value = nodes[node].committed

\* The child values the root committed are those of one call of render: the
\* string and the component's output carry the same number.
C34_OneRender ==
  cache # 0 =>
    \A i \in 1..Len(nodes[cache].childValues) :
      LET v == nodes[cache].childValues[i] IN
      v.s => \A a, b \in 1..Len(v.x) : v.x[a] = v.x[b]

\* ------------------------------------------------- the text specification
\* The root renders lists of strings, a host element and a fragment whose
\* children are a string and a host element.
TextPool ==
  {Text(<<7>>), Text(<<8>>), Elem("a", 0, 0, NoChildren),
   Elem(Fragment, 0, 0, Many(<<Text(<<9>>), Elem("b", 0, 0, NoChildren)>>))}

RenderText == \E cs \in Seqs(TextPool, MaxLen) : Render(Many(cs))

NextText == RenderText

SpecText == Init /\ [][NextText]_vars

\* C12 (text run merging): the child values a host node committed never hold
\* two adjacent strings.
C12_NoAdjacentStrings ==
  \A node \in 1..Len(nodes) :
    \A i \in 1..(Len(nodes[node].childValues) - 1) :
      ~(nodes[node].childValues[i].s /\ nodes[node].childValues[i + 1].s)

\* ------------------------------------------- the iteration specification
\* The root renders one generator component at a time whose body asks for
\* its props against the protocol of its kind.
IterTags == {"AGenS", "GenAw"}

RenderIter ==
  /\ Budget
  /\ jobs = <<>>
  /\ \E tag \in IterTags :
       Render(One(Elem(tag, 0, made.render + 1, NoChildren)))

NextIter == RenderIter \/ RefreshAny \/ SettleAny \/ RunJob

SpecIter == Init /\ [][NextIter]_vars

\* C14 (props-iteration misuse): every request for props by the sync
\* iterator in an async generator component, and by the async iterator in a
\* sync generator component, raises an error.
C14_Misuse ==
  \A node \in 1..Len(nodes) : nodes[node].refused = nodes[node].asked

\* ------------------------------------------- the callbacks specification
\* The root renders one component at a time, a sync or an async function
\* whose body registers callbacks when its props are not 0, or nothing.
HookTags == {"FnH", "AFnH"}

RenderHooks ==
  /\ Budget
  /\ jobs = <<>>
  /\ \E tag \in HookTags, p \in 0..1 : Render(One(Elem(tag, 0, p, NoChildren)))

NextHooks == RenderHooks \/ RenderNull \/ RefreshAny \/ SettleAny \/ RunJob

SpecHooks == Init /\ [][NextHooks]_vars

\* C15: a callback registered with schedule is called once, at the next
\* commit of its component and with the value of that commit, and not before
\* or after; a callback registered with cleanup is called once when the
\* component is unmounted, and not before.
C15_Callbacks ==
  \A node \in 1..Len(nodes) : \A i \in 1..Len(nodes[node].regs) :
    LET n == nodes[node]
        r == n.regs[i]
        hits == {j \in 1..Len(n.fired) : n.fired[j].cb = r.cb}
        cleans == {j \in 1..Len(n.cleaned) : n.cleaned[j] = r.cb}
    IN /\ IF Len(n.commits) > r.at
          THEN /\ Cardinality(hits) = 1
               /\ \A j \in hits : /\ n.fired[j].at = r.at + 1
                                  /\ n.fired[j].value = n.commits[r.at + 1]
          ELSE hits = {}
       /\ Cardinality(cleans) = IF n.unmounted THEN 1 ELSE 0

\* A component registered callbacks in two calls, committed again after the
\* commit that followed the first registration, and was unmounted.
C15_Witness ==
  \E node \in 1..Len(nodes) :
    /\ Len(nodes[node].regs) >= 2
    /\ Len(nodes[node].commits) > nodes[node].regs[1].at + 1
    /\ Len(nodes[node].fired) >= 2
    /\ nodes[node].unmounted
    /\ Len(nodes[node].cleaned) >= 2

\* --------------------------------------------- the context specification
\* The root renders a chain of three elements: an async function component,
\* a component or a host element, and a sync function component.  Each
\* component sets its own name when its props are not 0, and reads both
\* names.
Nest(tag, p, children) == One(Elem(tag, 0, p, children))

CtxTrees(v) ==
  {Nest(w1, p1, Nest(w2, p2, Nest(w3, v, NoChildren))) :
     w1 \in {"AFnK1", "AFnK2"}, w2 \in {"AFnK2", "FnK1", "a"},
     w3 \in {"FnK1", "FnK2"}, p1 \in {0, v}, p2 \in {0, v}}

RenderCtx ==
  /\ Tries
  /\ jobs = <<>>
  /\ \E tree \in CtxTrees(made.render + 1) : Render(tree)

NextCtx == RenderCtx \/ RefreshCatch \/ SettleAny \/ RunJob

SpecCtx == Init /\ [][NextCtx]_vars

\* The strict ancestors of the node.
RECURSIVE Ancestors(_, _)
Ancestors(node, fuel) ==
  IF nodes[node].parent = 0 \/ fuel = 0 THEN {}
  ELSE {nodes[node].parent} \cup Ancestors(nodes[node].parent, fuel - 1)

\* The strict ancestor components of the node that have set the name.
Setters(node, name) ==
  {a \in Ancestors(node, Len(nodes)) :
     nodes[a].kind = "comp" /\ nodes[a].provisions[name] # -1}

\* The body of the node was called in the last step.
Called(node) ==
  \/ node > Len(last.pre)
  \/ node <= Len(last.pre) /\ nodes[node].calls > last.pre[node].calls

\* C16: what get returned to a body called in the last step is, for each
\* name, the value held by the nearest strict ancestor component that has
\* set the name, and undefined when there is none.
C16_Context ==
  \A node \in 1..Len(nodes) : \A name \in 1..2 :
    (Called(node) /\ Behav(nodes[node].tag).sets # 0) =>
      IF Setters(node, name) = {} THEN nodes[node].got[name] = 0
      ELSE \E a \in Setters(node, name) :
             /\ \A b \in Setters(node, name) \ {a} : b \in Ancestors(a, Len(nodes))
             /\ nodes[node].got[name] = nodes[a].provisions[name]

\* A body that has set a name itself was given the older value of a farther
\* ancestor for it, with a nearer ancestor in between that has not set it.
C16_Witness ==
  \E node \in 1..Len(nodes) : \E name \in 1..2 :
    /\ Called(node)
    /\ nodes[node].provisions[name] > 0
    /\ nodes[node].got[name] > 0
    /\ nodes[node].got[name] # nodes[node].provisions[name]
    /\ \E a \in Ancestors(node, Len(nodes)) :
         /\ nodes[a].kind = "comp"
         /\ nodes[a].provisions[name] = -1
         /\ Setters(a, name) # {}

\* ------------------------------------------------- the refs specification
\* The root renders an element around one child element; each of the two
\* has a ref or has none.  The child is a host element, a host element
\* whose intrinsic raises, or an async function component.
WithRef(el, r) == IF r THEN Ref(el) ELSE el

RefTrees(v) ==
  {One(WithRef(Elem(t1, 0, v, One(WithRef(Elem(t2, 0, v, NoChildren), r2))), r1)) :
     t1 \in {"a", Fragment, "FnW", "AFnW"}, t2 \in {"a", "bad", "AFn"},
     r1 \in BOOLEAN, r2 \in BOOLEAN}

RenderRef ==
  /\ Tries
  /\ jobs = <<>>
  /\ \E tree \in RefTrees(made.render + 1) : Render(tree)

NextRef == RenderRef \/ RefreshCatch \/ SettleAny \/ RunJob

SpecRef == Init /\ [][NextRef]_vars

\* C17: the calls of a node's ref are, in order, the values stored by the
\* commits of the node that completed while it carried a ref; a host whose
\* intrinsic raises has no call of its ref.
C17_Refs ==
  \A node \in 1..Len(nodes) :
    /\ nodes[node].refd = nodes[node].carried
    /\ (nodes[node].kind = "host" /\ IntrinsicThrows(nodes[node].tag)) =>
         nodes[node].refd = <<>>

\* The ref of one node was called with the value its commit stored, and a
\* host with a ref has raised in its commit.
C17_Witness ==
  /\ \E node \in 1..Len(nodes) :
       /\ nodes[node].refd # <<>>
       /\ nodes[node].refd[Len(nodes[node].refd)] = nodes[node].value
  /\ \E node \in 1..Len(nodes) :
       /\ nodes[node].kind = "host" /\ nodes[node].ref # 0
       /\ IntrinsicThrows(nodes[node].tag)
       /\ \E i \in 1..Len(log) : log[i].e = "raise" /\ log[i].n = node

\* ------------------------------------------------ the overlap specification
\* The root renders one component at a time whose step returns a pending
\* driving promise: an async function, an async function that renders the
\* root again before its first await, a sync generator with an async
\* child, an async generator.  Renders and refreshes arrive at any time.
OverlapTags == {"AFn", "AFnR", "GenA", "AGen"}

RenderOverlap ==
  /\ made.render + made.refresh < MaxOverlap
  /\ \E tag \in OverlapTags, p \in 0..1 :
       /\ LastTag \in {"", tag}
       /\ Render(One(Elem(tag, 0, p, NoChildren)))

RefreshOverlap ==
  /\ made.render + made.refresh < MaxOverlap
  /\ \E node \in 1..Len(nodes) : Refresh(node)

NextOverlap == RenderOverlap \/ RefreshOverlap \/ SettleAny \/ RunJob

SpecOverlap == Init /\ [][NextOverlap]_vars

\* C18: no step of a component is entered while the driving promise that
\* the step before returned for the node is still pending.
C18_OneStepInFlight ==
  \A node \in 1..Len(nodes) :
    nodes[node].kind = "comp" => ~nodes[node].racing

\* C19: the commit chained to the aggregate of an updateChildren call is
\* never executed once a later call has begun on the node while that
\* aggregate was pending.
C19_LoserSuppressed == \A node \in 1..Len(nodes) : nodes[node].lost = {}

\* -------------------------------------------------- the resume specification
\* The root renders one generator component at a time, sync or async, whose
\* child is a string or an async component, with props that number the
\* calls of render.
ResumeTags == {"Gen", "GenA", "AGen", "AGenA"}

RenderResume ==
  /\ made.render + made.refresh < MaxOverlap
  /\ \E tag \in ResumeTags :
       /\ LastTag \in {"", tag}
       /\ Render(One(Elem(tag, 0, made.render + 1, NoChildren)))

NextResume == RenderResume \/ RefreshOverlap \/ SettleAny \/ RunJob

SpecResume == Init /\ [][NextResume]_vars

\* C35 (resumption value): the value passed to call k + 1 of iterator.next,
\* itself or as the fulfilment of the promise passed, is the value the node
\* commits for the child of iteration k.
C35_Resumed ==
  \A node \in 1..Len(nodes) :
    \A k \in 1..Len(nodes[node].resumed) :
      (k > 1 /\ nodes[node].resumed[k].settled /\ Len(nodes[node].yields) >= k - 1) =>
        nodes[node].resumed[k].value = nodes[node].yields[k - 1]

\* The same for the calls that got the value itself.
C35_Direct ==
  \A node \in 1..Len(nodes) :
    \A k \in 1..Len(nodes[node].resumed) :
      (k > 1 /\ nodes[node].resumed[k].direct /\ Len(nodes[node].yields) >= k - 1) =>
        nodes[node].resumed[k].value = nodes[node].yields[k - 1]

\* ---------------------------------------------------- the late specification
\* The root renders one async component at a time, whose child is a string
\* or a function component, or null, which unmounts what was rendered.  No
\* promise job is left when render is called, so that a callback that runs
\* after an unmount belongs to a promise that settled after it.
LateTags == {"AFn", "AFnF", "AGen"}

RenderLate ==
  /\ jobs = <<>>
  /\ \E tag \in LateTags : Render(One(Elem(tag, 0, made.render + 1, NoChildren)))

RenderNone == jobs = <<>> /\ Render(One(Null))

NextLate == RenderLate \/ RenderNone \/ SettleAny \/ RunJob

SpecLate == Init /\ [][NextLate]_vars

\* C36 (no work under an unmounted node): below a component node that was
\* unmounted before the last step, the step created no node and entered no
\* component's callable or iterator.
C36_NoLateWork ==
  \A x \in 1..Len(last.pre) :
    (last.pre[x].kind = "comp" /\ last.pre[x].unmounted) =>
      \A y \in 1..Len(nodes) :
        x \in Ancestors(y, Len(nodes)) =>
          /\ y <= Len(last.pre)
          /\ nodes[y].calls = last.pre[y].calls
          /\ nodes[y].nexts = last.pre[y].nexts

\* The same for the steps of an unmounted generator component.
C36_Generators ==
  \A x \in 1..Len(last.pre) :
    (last.pre[x].kind = "comp" /\ last.pre[x].unmounted /\ last.pre[x].iterator) =>
      \A y \in 1..Len(nodes) :
        x \in Ancestors(y, Len(nodes)) =>
          /\ y <= Len(last.pre)
          /\ nodes[y].calls = last.pre[y].calls
          /\ nodes[y].nexts = last.pre[y].nexts

\* ---------------------------------------------------- the step specification
\* The root renders one sync component at a time, with props 1 or 2: a
\* function whose first or second call raises, a
\* generator whose second iterator.next raises, or one that raises nothing.
\* Any node is refreshed.
StepTags == {"Fn", "Gen", "FnT", "FnU", "GenX"}

RenderStep ==
  /\ Budget
  /\ \E tag \in StepTags, p \in 1..2 :
       /\ LastTag \in {"", tag}
       /\ Render(One(Elem(tag, 0, p, NoChildren)))

NextStep == RenderStep \/ RefreshAny

SpecStep == Init /\ [][NextStep]_vars

\* The callable or the iterator of the component node n has raised an error.
Erred(n) ==
  /\ Behav(n.tag).throwAt # 0
  /\ IF Behav(n.tag).type = "gen" THEN n.nexts >= Behav(n.tag).throwAt
     ELSE n.calls >= Behav(n.tag).throwAt

\* C37 (stepping flag): between two steps of the program no component node
\* has the stepping flag set, and a call of refresh on a node that is not
\* unmounted enters run.
C37_SteppingClear ==
  /\ \A node \in 1..Len(nodes) : ~nodes[node].stepping
  /\ (last.op = "refresh" /\ ~last.pre[last.n].unmounted) =>
       nodes[last.n].runs > last.pre[last.n].runs

\* The same for the nodes whose callable or iterator has raised no error.
C37_NoError ==
  /\ \A node \in 1..Len(nodes) : nodes[node].stepping => Erred(nodes[node])
  /\ (last.op = "refresh" /\ ~last.pre[last.n].unmounted
        /\ ~Erred(last.pre[last.n])) =>
       nodes[last.n].runs > last.pre[last.n].runs

\* A refresh of a mounted node returned without entering run.
C37_Dropped ==
  /\ last.op = "refresh"
  /\ ~last.pre[last.n].unmounted
  /\ nodes[last.n].runs = last.pre[last.n].runs

\* ------------------------------------------------ the progress specification
\* The root renders one component at a time, async or sync with an async
\* child, with props that number the calls of render; renders and refreshes
\* overlap.  The job queue is drained: RunJob is weakly fair, written out
\* with jobs # <<>> for ENABLED <<RunJob>>_vars, which RunJob's guard makes
\* equivalent.  A promise of the user code that can settle does settle.
ProgressTags == {"AFn", "FnA", "GenA", "AGen"}

RenderProgress ==
  /\ made.render + made.refresh < MaxOverlap
  /\ \E tag \in ProgressTags :
       /\ LastTag \in {"", tag}
       /\ Render(One(Elem(tag, 0, made.render + 1, NoChildren)))

NextProgress == RenderProgress \/ RefreshOverlap \/ SettleAny \/ RunJob

SpecProgress ==
  /\ Init /\ [][NextProgress]_vars
  /\ WF_vars(SettleAny)
  /\ ([]<>(jobs = <<>>) \/ []<><<RunJob>>_vars)

\* Every promise that render, update or refresh returned has settled.
Settled ==
  \A node \in 1..Len(nodes) :
    \A i \in 1..Len(nodes[node].outs) : proms[nodes[node].outs[i]].st # "pending"

\* Every promise of the user code has settled and no error was raised.
Calm ==
  /\ raised = <<>>
  /\ \A p \in 1..Len(proms) :
       /\ proms[p].st # "rejected"
       /\ proms[p].user # "" => proms[p].st # "pending"

\* C38 (progress): when from some point on every promise of the user code
\* has settled and no error was raised, then from some point on every
\* promise returned by render, update and refresh has settled.
C38_Progress == <>[]Calm => <>[]Settled

\* Nothing is left to run, every promise returned has settled, one of them
\* was returned to two callers of a component's update, and a call of
\* updateChildren was superseded while its children were pending.
C38_Witness ==
  /\ Quiet /\ Calm /\ Settled
  /\ \E node \in 1..Len(nodes) :
       /\ nodes[node].kind = "comp"
       /\ \E i, j \in 1..Len(nodes[node].outs) :
            i < j /\ nodes[node].outs[i] = nodes[node].outs[j]
  /\ \E node \in 1..Len(nodes) : nodes[node].superseded # {}

\* The same at the states where nothing is left to run.
C38_AtRest == (Quiet /\ Calm) => Settled

\* The steps queued for the node that have not been entered: the callbacks
\* that run() chained to inflightPending and that wait for their promise or
\* for their turn as a promise job, each with the place where it waits and
\* the result it resolves.
Waiting(node) ==
  UNION {{<<p, i, proms[p].rs[i].a>> :
            i \in {j \in 1..Len(proms[p].rs) :
                     proms[p].rs[j].k = "enqStep" /\ proms[p].rs[j].n = node}} :
          p \in 1..Len(proms)}
    \cup {<<0, i, jobs[i].r.a>> :
            i \in {j \in 1..Len(jobs) :
                     jobs[j].r.k = "enqStep" /\ jobs[j].r.n = node}}

\* The last step of the model called advance on the node once.
Advanced(node) ==
  /\ node <= Len(last.pre)
  /\ nodes[node].advances = last.pre[node].advances + 1

\* C40 (scheduler slots): for every component node the enqueued step is
\* defined only if the inflight step is defined, the pending and the result
\* of the enqueued pair are defined together, exactly one queued step
\* resolves the enqueued result while the pair is defined and no two queued
\* steps resolve the same result, and a call of advance leaves the enqueued
\* pair empty and, unless the node is an async generator that advance steps
\* again, the inflight pair equal to the enqueued pair before the call.
C40_Slots ==
  \A node \in {x \in 1..Len(nodes) : nodes[x].kind = "comp"} :
    /\ nodes[node].enqueuedPending # 0 => nodes[node].inflightPending # 0
    /\ (nodes[node].enqueuedPending = 0) = (nodes[node].enqueuedResult = 0)
    /\ \A v, w \in Waiting(node) : v[3] = w[3] => v = w
    /\ nodes[node].enqueuedResult # 0 =>
         \E v \in Waiting(node) : v[3] = nodes[node].enqueuedResult
    /\ Advanced(node) =>
         /\ nodes[node].enqueuedPending = 0 /\ nodes[node].enqueuedResult = 0
         /\ nodes[node].componentType # "AsyncGen" =>
              /\ nodes[node].inflightPending = last.pre[node].enqueuedPending
              /\ nodes[node].inflightResult = last.pre[node].enqueuedResult

\* An advance moved a queued step into the inflight pair after a second
\* request had received the enqueued result.
C40_Witness ==
  \E node \in 1..Len(nodes) :
    /\ Advanced(node)
    /\ last.pre[node].enqueuedPending # 0
    /\ nodes[node].inflightPending = last.pre[node].enqueuedPending
    /\ nodes[node].enqueuedPending = 0
    /\ nodes[node].runs >= 3

\* -------------------------------------------- the aggregate specification
\* The root renders a list of two components, sync or async; the promises
\* of the async ones settle in any order.
AggTags == {"Fn", "AFn", "AGen"}

RenderAgg ==
  /\ Tries
  /\ \E t1 \in AggTags, t2 \in AggTags :
       Render(Many(<<Elem(t1, 0, made.render + 1, NoChildren),
                     Elem(t2, 0, made.render + 1, NoChildren)>>))

NextAgg == RenderAgg \/ RefreshCatch \/ SettleAny \/ RunJob

SpecAgg == Init /\ [][NextAgg]_vars

\* The number of the node's commits and of its updateChildren calls before
\* the last step.
CommitsBefore(node) == IF node <= Len(last.pre) THEN Len(last.pre[node].commits) ELSE 0
UpdatesBefore(node) == IF node <= Len(last.pre) THEN last.pre[node].updates ELSE 0

\* C25: when the commit chained to the aggregate of an updateChildren call is
\* entered, no promise that a child update of the call returned is pending;
\* and a component whose updateChildren call of the last step got no promise
\* from a child update has committed within that step.
C25_WaitsForAll ==
  \A node \in 1..Len(nodes) :
    /\ nodes[node].early = {}
    /\ (/\ nodes[node].kind = "comp"
        /\ nodes[node].updates > UpdatesBefore(node)
        /\ nodes[node].aggregate = 0) =>
         Len(nodes[node].commits) > CommitsBefore(node)

\* The chained commit of a call with two pending child updates was entered.
C25_Witness ==
  \E node \in 1..Len(nodes) : \E a \in nodes[node].done :
    \E w1 \in nodes[node].waited : \E w2 \in nodes[node].waited :
      w1[1] = a /\ w2[1] = a /\ w1[2] # w2[2]

\* ------------------------------------------------ the dirty specification
\* The root renders a host element, a fragment or a component around one
\* component: a sync function, or a sync or async generator that is done at
\* its second iteration and leaves no child.  The components are refreshed.
DirtyTrees(v) ==
  {Nest(w1, v, Nest(w2, v, NoChildren)) :
     w1 \in {"a", Fragment, "FnW", "GenW"}, w2 \in {"Fn", "GenD", "AGenD"}}

RenderDirty ==
  /\ Budget
  /\ jobs = <<>>
  /\ \E tree \in DirtyTrees(made.render + 1) :
       /\ last.children \in {NoChildren, tree}
       /\ Render(tree)

NextDirty == RenderDirty \/ RefreshAny \/ SettleAny \/ RunJob

SpecDirty == Init /\ [][NextDirty]_vars

Handlers == {"GenW", "GenE", "AGenW"}

FallbackTrees ==
  {Around(w, Around(x, NoChildren)) : w \in Handlers, x \in Throwers}
    \cup {Around(w, Around("a", Around(x, NoChildren))) : w \in Handlers, x \in Throwers}

RenderFallback ==
  /\ Tries
  /\ jobs = <<>>
  /\ \E tree \in FallbackTrees :
       /\ last.children \in {NoChildren, tree}
       /\ Render(tree)

NextFallback == RenderFallback \/ RefreshCatch \/ SettleAny \/ RunJob

SpecFallback == Init /\ [][NextFallback]_vars

\* iterator.throw of the component node was entered in the last step.
Threw(node) ==
  nodes[node].throws > (IF node <= Len(last.pre) THEN last.pre[node].throws ELSE 0)

\* The children of the node are the nodes of the child that iterator.throw
\* of its behaviour produces.
Fallen(node) ==
  LET list == ChildList(Cur, node) IN
  IF Behav(nodes[node].tag).onThrow = "yield"
  THEN Len(list) = 1 /\ nodes[list[1]].kind = "leaf" /\ nodes[list[1]].value = <<Str(<<0>>)>>
  ELSE list = <<>>

\* C27 (error fallback): when the step that entered iterator.throw of a
\* sync generator is over, the children of the generator are the child that
\* throw produced, the generator has committed them, and it is finished
\* exactly when throw reported done.
C27_Fallback ==
  \A node \in 1..Len(nodes) :
    (Threw(node) /\ Behav(nodes[node].tag).type = "gen") =>
      /\ Fallen(node)
      /\ Len(nodes[node].commits) > CommitsBefore(node)
      /\ nodes[node].finished <=> Behav(nodes[node].tag).onThrow = "done"

\* ------------------------------------------------ the props specification
\* The root renders an async generator that yields its children around a
\* sync or async function, which may raise an error.  Renders and refreshes
\* arrive at any time, also while a step is in flight.
PropsTrees(v) ==
  {Nest(w, v, Nest(x, v, NoChildren)) : w \in {"AGenW", "AGenN"}, x \in {"Fn", "AFn", "AFnT"}}

RenderProps ==
  /\ Tries
  /\ \E tree \in PropsTrees(made.render + 1) :
       /\ last.children \in {NoChildren} \cup PropsTrees(made.render)
       /\ Render(tree)

NextProps == RenderProps \/ RefreshCatch \/ SettleAny \/ RunJob

SpecProps == Init /\ [][NextProps]_vars

\* C28 (props handoff): a call of update or refresh resolves the waiting
\* props request or leaves the available flag set, never both; the
\* available flag and a props request are never present together; and no
\* two iterations of an async generator receive the props of one call.
C28_Handoff ==
  \A node \in 1..Len(nodes) :
    LET n == nodes[node] IN
    /\ \A h \in n.hands : h.resolved # h.available
    /\ ~(n.available /\ n.onProps)
    /\ \A i \in 1..Len(n.took) : \A j \in 1..Len(n.took) :
         n.took[i] = n.took[j] => i = j

\* The first two conjuncts of C28 alone.
C28_Exclusive ==
  \A node \in 1..Len(nodes) :
    LET n == nodes[node] IN
    /\ \A h \in n.hands : h.resolved # h.available
    /\ ~(n.available /\ n.onProps)

\* -------------------------------------------- the re-entrancy specification
\* The root renders one sync function component; run with props other than
\* 0, the body of "FnR" renders the root again and the body of "FnS"
\* refreshes its own context.
ReentTags == {"Fn", "FnR", "FnS"}

RenderReent ==
  \E tag \in ReentTags, p \in 0..1 : Render(One(Elem(tag, 0, p, NoChildren)))

RefreshReent == \E node \in 1..Len(nodes) : Refresh(node)

NextReent == RenderReent \/ RefreshReent

SpecReent == Init /\ [][NextReent]_vars

\* C9: the callable of a component is never entered while a step of the same
\* node is still executing (the stepping flag is set).
C9_NoReentry == \A node \in 1..Len(nodes) : ~nodes[node].reentered

\* ------------------------------------------- the completion specification
\* The root renders a sync and an async generator component that report
\* done: "GenD" and "AGenD" at their second iteration, "GenRet" at its
\* first, with a last output.
DoneTags == {"GenD", "AGenD", "GenRet"}

RenderDone ==
  /\ Budget
  /\ jobs = <<>>
  /\ \E t1 \in DoneTags \ {"AGenD"} :
       Render(Many(<<Elem(t1, 0, made.render + 1, NoChildren),
                     Elem("AGenD", 0, made.render + 1, NoChildren)>>))

NextDone == RenderDone \/ RefreshAny \/ SettleAny \/ RunJob

SpecDone == Init /\ [][NextDone]_vars

\* The iterator of the node reported done before the last step: the node was
\* finished and not unmounted.
Done(node) ==
  /\ node \in 1..Len(last.pre)
  /\ last.pre[node].finished
  /\ ~last.pre[node].unmounted

\* C10: a finished node stays finished, and no step after its iterator
\* reported done calls its callable, its iterator.next or its updateChildren.
C10_Completion ==
  \A node \in 1..Len(last.pre) :
    last.pre[node].finished =>
      /\ nodes[node].finished
      /\ nodes[node].calls = last.pre[node].calls
      /\ nodes[node].nexts = last.pre[node].nexts
      /\ Done(node) => nodes[node].updates = last.pre[node].updates

\* run was called on a node whose async iterator had reported done, and on
\* one whose sync iterator had.
C10_Witness ==
  \E node \in 1..Len(nodes), other \in 1..Len(nodes) :
    /\ Done(node) /\ Done(other)
    /\ nodes[node].runs > last.pre[node].runs
    /\ nodes[other].runs > last.pre[other].runs
    /\ nodes[node].componentType = "AsyncGen"
    /\ nodes[other].componentType = "SyncGen"
====
